---- MODULE Spec2Model ----
(***************************************************************************)
(* Model of katalog's tailing and supervision core:                        *)
(*   - agent.Agent (New / Run / discover)        internal/agent            *)
(*   - forwarder.TailFile                        internal/forwarder        *)
(*   - forwarder.WriteLogs                       internal/forwarder        *)
(* together with the file system the Tailers observe (paths, file          *)
(* identities, file contents) and the root cancellation signal.            *)
(*                                                                         *)
(* Text is modelled as a sequence of one-character strings so that         *)
(* strings.TrimSpace, bufio.Reader.ReadString and the regular expressions  *)
(* are computed, not assumed.                                              *)
(***************************************************************************)
EXTENDS Integers, Sequences, FiniteSets, TLC

\* ------------------------------------------------------------------------
\* Bounds of the model
\* ------------------------------------------------------------------------
\* number of distinct paths the glob patterns can match
NPaths == 2
\* number of cancelled Tailer goroutines that can still be running after
\* discover has dropped them from the tracked map
MaxUntracked == 1
\* number of file identities (inodes) ever created
MaxFiles == 2
\* capacity of the channel between the Tailers and the writer
QueueCap == 1
\* number of records bufio.Writer holds before it flushes by itself
WBufCap == 1
\* number of writes / truncations the environment performs on a tailed file
\* in the single-Tailer specification, and in the agent specification
MaxOps == 2
MaxAgentOps == 1
\* number of unread lines in the tailed file when the shutdown specification
\* starts
LiveLines == 2
\* number of writes / truncations in the truncation specification
MaxTruncOps == 3
\* number of lines appended in the record assembly specification
MaxRecOps == 3
\* number of lines appended in the ordering specification
MaxOrderOps == 3
\* number of targets of a configuration handed to agent.New
MaxTargets == 2
\* number of entries sent to the writer in the writer specifications
MaxWriterOps == 2

Paths == 1..NPaths
\* one slot per goroutine that can exist at the same time
Slots == 1..(NPaths + MaxUntracked)
FileIds == 1..MaxFiles
NoFile == 0

\* ------------------------------------------------------------------------
\* Text
\* ------------------------------------------------------------------------
NL == "\n"
SP == " "
WhiteSpace == {SP, NL}

\* the writes a logging process performs: each appends one complete line
\* (a line to be trimmed, which also matches the exclude pattern; a blank
\* line; a line matching the multiline start pattern)
Payloads == { <<SP, "X", NL>>, <<SP, NL>>, <<"S", NL>> }
AgentPayloads == { <<"S", NL>> }

RECURSIVE TrimLeft(_)
TrimLeft(s) ==
  IF s = <<>> THEN <<>>
  ELSE IF Head(s) \in WhiteSpace THEN TrimLeft(Tail(s)) ELSE s

RECURSIVE TrimRight(_)
TrimRight(s) ==
  IF s = <<>> THEN <<>>
  ELSE IF s[Len(s)] \in WhiteSpace THEN TrimRight(SubSeq(s, 1, Len(s) - 1))
       ELSE s

\* strings.TrimSpace
TrimSpace(s) == TrimRight(TrimLeft(s))

\* regexp.Regexp.MatchString for the patterns of the model:
\*   ""    no pattern configured (nil *Regexp)
\*   "X"   matches a text that contains the character X
\*   "^S"  matches a text that begins with the character S
MatchString(re, s) ==
  CASE re = "X"  -> \E i \in 1..Len(s) : s[i] = "X"
    [] re = "^S" -> Len(s) > 0 /\ s[1] = "S"
    [] OTHER     -> FALSE

\* position of the first line terminator after offset off, 0 when none
FirstNL(s, off) ==
  LET I == {i \in (off + 1)..Len(s) : s[i] = NL}
  IN  IF I = {} THEN 0 ELSE CHOOSE i \in I : \A j \in I : i <= j

\* ------------------------------------------------------------------------
\* State
\* ------------------------------------------------------------------------
VARIABLES
  cfg,        \* config.Config: output format and the sequence of targets
  fs,         \* path -> identity of the file found there (NoFile: none)
  content,    \* file identity -> bytes of the file
  nfiles,     \* number of file identities created so far
  budget,     \* writes / truncations the environment may still perform
  rootCancel, \* the root context passed to Agent.Run is cancelled
  runPc,      \* position of Agent.Run
  tracked,    \* Agent.tracked: path -> slot of the Tailer whose cancel it holds
  wg,         \* Agent.wg counter
  tailers,    \* slot -> state of the TailFile goroutine in that slot
  queue,      \* Agent.logCh: buffered entries
  closed,     \* Agent.logCh has been closed
  panicked,   \* a goroutine sent on the closed channel
  wpc,        \* position of WriteLogs
  wbuf,       \* bufio.Writer: serialized records not yet flushed
  sink,       \* records that reached os.Stdout
  emitted,    \* history: every entry ever placed on the queue, in order
  written,    \* history: path -> every line appended while a Tailer read it
  truncated,  \* history: some file has been truncated
  winWrite    \* history: a write happened inside a Tailer's detection window

envVars == <<fs, content, nfiles, budget, written, truncated, winWrite>>
agentVars == <<runPc, tracked>>
writerVars == <<wpc, wbuf, sink>>
vars == <<cfg, fs, content, nfiles, budget, rootCancel, runPc, tracked, wg,
          tailers, queue, closed, panicked, wpc, wbuf, sink, emitted,
          written, truncated, winWrite>>

Hostname == "h"

\* a slot in which no goroutine runs
NoTailer ==
  [pc |-> "none", path |-> 0, tgt |-> 0, cancel |-> FALSE, handle |-> NoFile,
   off |-> 0, fiId |-> NoFile, fiSize |-> 0, mbuf |-> <<>>, pend |-> <<>>,
   cont |-> "", line |-> <<>>, nfId |-> NoFile, nfSize |-> 0, logged |-> {},
   errs |-> <<>>]

\* the goroutine in slot t has been started and has not returned
Live(t) == tailers[t].pc \notin {"none", "done"}

\* ctx.Done() of the Tailer's context is ready: its own cancel function was
\* called, or the parent (root) context was cancelled
Cancelled(t) == tailers[t].cancel \/ rootCancel

Size(f) == Len(content[f])

\* time.Now().Unix() at the time an entry is built
Now == "now"

\* mutant of LogEntry: the entry carries the field map of the first target
LogEntry_FirstTargetFields(t, msg) ==
  [time       |-> Now,
   host       |-> Hostname,
   source     |-> tailers[t].path,
   sourcetype |-> cfg.targets[tailers[t].tgt].name,
   event      |-> msg,
   fields     |-> cfg.targets[1].fields]

\* models.LogEntry as built by TailFile
LogEntry(t, msg) ==
  [time       |-> Now,
   host       |-> Hostname,
   source     |-> tailers[t].path,
   sourcetype |-> cfg.targets[tailers[t].tgt].name,
   event      |-> msg,
   fields     |-> cfg.targets[tailers[t].tgt].fields]

ExcludeRegex(t) == cfg.targets[tailers[t].tgt].exclude
MultilineRegex(t) == cfg.targets[tailers[t].tgt].multiline


\* ------------------------------------------------------------------------
\* forwarder.TailFile
\* ------------------------------------------------------------------------
\* what a tailer step leaves alone
tailFrame == <<cfg, fs, content, nfiles, budget, written, truncated,
               winWrite, rootCancel, runPc, tracked, wpc, wbuf, sink>>
chanVars == <<queue, closed, emitted, panicked>>

\* the goroutine has returned; the deferred wg.Done() is part of the step
\* that uses this record.  handle keeps the file the goroutine left open,
\* errs the increments of metrics.FileErrors the goroutine has made.
Finished(r) ==
  [NoTailer EXCEPT !.pc = "done", !.path = r.path, !.tgt = r.tgt,
                   !.handle = r.handle, !.errs = r.errs]

\* metrics.FileErrors.WithLabelValues(path, kind).Inc(): errs lists the
\* kinds the goroutine has incremented for its path, one element for each
\* increment
IncFileErrors(r, kind) == [r EXCEPT !.errs = Append(@, kind)]

\* the state flushBuffer's caller reaches once the flush is over:
\*   "close"   file.Close(); return            (cancellation, line 81-83)
\*   "append"  multilineBuffer.WriteString(line)         (line 136-138)
\*   "rotopen" os.Open(path) of the rotated file          (line 92-93)
AfterFlush(r, k) ==
  CASE k = "close"  -> Finished([r EXCEPT !.handle = NoFile])
    [] k = "append" -> [r EXCEPT !.mbuf = r.line, !.line = <<>>, !.pc = "loop"]
    [] OTHER        -> [r EXCEPT !.pc = k]

\* mutant of FlushBuffer: the exclude pattern is not applied to the record
FlushBuffer_NoExclude(t, r, k) ==
  LET msg == TrimSpace(r.mbuf)
  IN  IF \/ r.mbuf = <<>>
         \/ msg = <<>>
      THEN AfterFlush([r EXCEPT !.mbuf = <<>>], k)
      ELSE [r EXCEPT !.mbuf = <<>>, !.pend = msg, !.pc = "fsend", !.cont = k]

\* flushBuffer: nothing is sent when the buffer is empty, blank after
\* trimming or excluded; otherwise the entry is sent with a plain channel
\* send (pc "fsend"), after which the caller continues at k
FlushBuffer(t, r, k) ==
  LET msg == TrimSpace(r.mbuf)
  IN  IF \/ r.mbuf = <<>>
         \/ msg = <<>>
         \/ (ExcludeRegex(t) # "" /\ MatchString(ExcludeRegex(t), msg))
      THEN AfterFlush([r EXCEPT !.mbuf = <<>>], k)
      ELSE [r EXCEPT !.mbuf = <<>>, !.pend = msg, !.pc = "fsend", !.cont = k]

\* mutant of WgAfter: the goroutine returns without wg.Done()
WgAfter_NoDone(r, r2) == wg

\* a step that takes the goroutine from record r to record r2 runs the
\* deferred wg.Done() when r2 is the end of the goroutine
WgAfter(r, r2) == IF r.pc # "done" /\ r2.pc = "done" THEN wg - 1 ELSE wg

\* mutant of TailOpen: the file is read from its start
TailOpen_NoSeek(t) ==
  /\ tailers[t].pc = "open"
  /\ LET r  == tailers[t]
         f  == fs[r.path]
         r2 == IF f = NoFile THEN Finished(IncFileErrors(r, "open"))
               ELSE [r EXCEPT !.handle = f, !.off = 0, !.fiId = f,
                              !.fiSize = Size(f), !.pc = "loop"]
     IN  /\ tailers' = [tailers EXCEPT ![t] = r2]
         /\ wg' = WgAfter(r, r2)
  /\ UNCHANGED <<tailFrame, chanVars>>

\* mutant of TailOpen: a failed os.Open removes the path from the tracked map
TailOpen_Untrack(t) ==
  /\ tailers[t].pc = "open"
  /\ LET r  == tailers[t]
         f  == fs[r.path]
         r2 == IF f = NoFile THEN Finished(IncFileErrors(r, "open"))
               ELSE [r EXCEPT !.handle = f, !.off = Size(f), !.fiId = f,
                              !.fiSize = Size(f), !.pc = "loop"]
     IN  /\ tailers' = [tailers EXCEPT ![t] = r2]
         /\ wg' = WgAfter(r, r2)
         /\ tracked' = IF f = NoFile THEN [tracked EXCEPT ![r.path] = 0]
                       ELSE tracked
  /\ UNCHANGED <<cfg, fs, content, nfiles, budget, written, truncated,
                 winWrite, rootCancel, runPc, wpc, wbuf, sink, chanVars>>

\* mutant of TailOpen: a failed os.Open is not counted
TailOpen_NoCount(t) ==
  /\ tailers[t].pc = "open"
  /\ LET r  == tailers[t]
         f  == fs[r.path]
         r2 == IF f = NoFile THEN Finished(r)
               ELSE [r EXCEPT !.handle = f, !.off = Size(f), !.fiId = f,
                              !.fiSize = Size(f), !.pc = "loop"]
     IN  /\ tailers' = [tailers EXCEPT ![t] = r2]
         /\ wg' = WgAfter(r, r2)
  /\ UNCHANGED <<tailFrame, chanVars>>

\* startup: os.Open(path), a failure counted as "open" and ending the
\* goroutine; file.Seek(0, io.SeekEnd); fi := file.Stat();
\* reader := bufio.NewReader(file)
TailOpen(t) ==
  /\ tailers[t].pc = "open"
  /\ LET r  == tailers[t]
         f  == fs[r.path]
         r2 == IF f = NoFile THEN Finished(IncFileErrors(r, "open"))
               ELSE [r EXCEPT !.handle = f, !.off = Size(f), !.fiId = f,
                              !.fiSize = Size(f), !.pc = "loop"]
     IN  /\ tailers' = [tailers EXCEPT ![t] = r2]
         /\ wg' = WgAfter(r, r2)
  /\ UNCHANGED <<tailFrame, chanVars>>

\* startup, os.Open succeeds and file.Seek(0, io.SeekEnd) fails: the error
\* is counted as "seek" and the goroutine returns; no file.Close() is on
\* this path
TailOpenSeekFail(t) ==
  /\ tailers[t].pc = "open"
  /\ fs[tailers[t].path] # NoFile
  /\ LET r  == tailers[t]
         r2 == Finished([IncFileErrors(r, "seek") EXCEPT
                           !.handle = fs[r.path]])
     IN  /\ tailers' = [tailers EXCEPT ![t] = r2]
         /\ wg' = WgAfter(r, r2)
  /\ UNCHANGED <<tailFrame, chanVars>>

\* startup, os.Open and Seek succeed and file.Stat() fails: file.Close();
\* return
TailOpenStatFail(t) ==
  /\ tailers[t].pc = "open"
  /\ fs[tailers[t].path] # NoFile
  /\ LET r  == tailers[t]
         r2 == Finished(r)
     IN  /\ tailers' = [tailers EXCEPT ![t] = r2]
         /\ wg' = WgAfter(r, r2)
  /\ UNCHANGED <<tailFrame, chanVars>>

\* mutant of ReadLine: a line that matches no start pattern is kept only
\* when the buffer already holds a record
ReadLine_DropLeading(t, r) ==
  LET data == content[r.handle]
      nl   == FirstNL(data, r.off)
  IN  IF nl = 0
      THEN [r EXCEPT !.off = IF Len(data) > r.off THEN Len(data) ELSE r.off,
                     !.pc = "eof"]
      ELSE LET line == SubSeq(data, r.off + 1, nl)
               r1   == [r EXCEPT !.off = nl]
           IN  IF MultilineRegex(t) # ""
               THEN IF MatchString(MultilineRegex(t), line)
                    THEN FlushBuffer(t, [r1 EXCEPT !.line = line], "append")
                    ELSE IF r.mbuf = <<>> THEN r1
                    ELSE [r1 EXCEPT !.mbuf = r.mbuf \o line]
               ELSE LET msg == TrimSpace(line)
                    IN  IF ExcludeRegex(t) # ""
                           /\ MatchString(ExcludeRegex(t), msg)
                        THEN r1
                        ELSE [r1 EXCEPT !.pend = msg, !.pc = "send"]

\* mutant of ReadLine: a start line is added to the buffer without a flush
ReadLine_NoFlushOnStart(t, r) ==
  LET data == content[r.handle]
      nl   == FirstNL(data, r.off)
  IN  IF nl = 0
      THEN [r EXCEPT !.off = IF Len(data) > r.off THEN Len(data) ELSE r.off,
                     !.pc = "eof"]
      ELSE LET line == SubSeq(data, r.off + 1, nl)
               r1   == [r EXCEPT !.off = nl]
           IN  IF MultilineRegex(t) # ""
               THEN [r1 EXCEPT !.mbuf = r.mbuf \o line]
               ELSE LET msg == TrimSpace(line)
                    IN  IF ExcludeRegex(t) # ""
                           /\ MatchString(ExcludeRegex(t), msg)
                        THEN r1
                        ELSE [r1 EXCEPT !.pend = msg, !.pc = "send"]

\* mutant of ReadLine: single-line mode sends the line as read, untrimmed
ReadLine_NoTrim(t, r) ==
  LET data == content[r.handle]
      nl   == FirstNL(data, r.off)
  IN  IF nl = 0
      THEN [r EXCEPT !.off = IF Len(data) > r.off THEN Len(data) ELSE r.off,
                     !.pc = "eof"]
      ELSE LET line == SubSeq(data, r.off + 1, nl)
               r1   == [r EXCEPT !.off = nl]
           IN  IF MultilineRegex(t) # ""
               THEN IF MatchString(MultilineRegex(t), line)
                    THEN FlushBuffer(t, [r1 EXCEPT !.line = line], "append")
                    ELSE [r1 EXCEPT !.mbuf = r.mbuf \o line]
               ELSE IF ExcludeRegex(t) # ""
                       /\ MatchString(ExcludeRegex(t), TrimSpace(line))
                    THEN r1
                    ELSE [r1 EXCEPT !.pend = line, !.pc = "send"]

\* reader.ReadString('\n') and the handling of a complete line
ReadLine(t, r) ==
  LET data == content[r.handle]
      nl   == FirstNL(data, r.off)
  IN  IF nl = 0
      THEN \* io.EOF: the bytes read before it are returned with the error
           \* and the loop does not use them
           [r EXCEPT !.off = IF Len(data) > r.off THEN Len(data) ELSE r.off,
                     !.pc = "eof"]
      ELSE LET line == SubSeq(data, r.off + 1, nl)
               r1   == [r EXCEPT !.off = nl]
           IN  IF MultilineRegex(t) # ""
               THEN IF MatchString(MultilineRegex(t), line)
                    THEN FlushBuffer(t, [r1 EXCEPT !.line = line], "append")
                    ELSE [r1 EXCEPT !.mbuf = r.mbuf \o line]
               ELSE LET msg == TrimSpace(line)
                    IN  IF ExcludeRegex(t) # ""
                           /\ MatchString(ExcludeRegex(t), msg)
                        THEN r1
                        ELSE [r1 EXCEPT !.pend = msg, !.pc = "send"]

\* mutant of TailLoop: on cancellation the file is closed without a flush
TailLoop_NoFlush(t) ==
  /\ tailers[t].pc = "loop"
  /\ LET r  == tailers[t]
         r2 == IF Cancelled(t) THEN Finished([r EXCEPT !.handle = NoFile])
               ELSE ReadLine(t, r)
     IN  /\ tailers' = [tailers EXCEPT ![t] = r2]
         /\ wg' = WgAfter(r, r2)
  /\ UNCHANGED <<tailFrame, chanVars>>

\* mutant of TailLoop: the loop never looks at ctx.Done()
TailLoop_IgnoreCancel(t) ==
  /\ tailers[t].pc = "loop"
  /\ LET r  == tailers[t]
         r2 == ReadLine(t, r)
     IN  /\ tailers' = [tailers EXCEPT ![t] = r2]
         /\ wg' = WgAfter(r, r2)
  /\ UNCHANGED <<tailFrame, chanVars>>

\* head of the for loop: select { case <-ctx.Done(): flushBuffer();
\* file.Close(); return   default: read a line }
TailLoop(t) ==
  /\ tailers[t].pc = "loop"
  /\ LET r  == tailers[t]
         r2 == IF Cancelled(t) THEN FlushBuffer(t, r, "close")
               ELSE ReadLine(t, r)
     IN  /\ tailers' = [tailers EXCEPT ![t] = r2]
         /\ wg' = WgAfter(r, r2)
  /\ UNCHANGED <<tailFrame, chanVars>>

\* mutant of TailReadErr: the goroutine returns without flushBuffer()
TailReadErr_NoFlush(t) ==
  /\ tailers[t].pc = "loop"
  /\ ~Cancelled(t)
  /\ LET r  == tailers[t]
         r2 == Finished([IncFileErrors(r, "read") EXCEPT !.handle = NoFile])
     IN  /\ tailers' = [tailers EXCEPT ![t] = r2]
         /\ wg' = WgAfter(r, r2)
  /\ UNCHANGED <<tailFrame, chanVars>>

\* default case of the select, reader.ReadString('\n') returns an error
\* that is not io.EOF: the error is counted as "read", then flushBuffer();
\* file.Close(); return.  What ReadString returns beside the error is
\* not used.
TailReadErr(t) ==
  /\ tailers[t].pc = "loop"
  /\ ~Cancelled(t)
  /\ LET r  == tailers[t]
         r2 == FlushBuffer(t, IncFileErrors(r, "read"), "close")
     IN  /\ tailers' = [tailers EXCEPT ![t] = r2]
         /\ wg' = WgAfter(r, r2)
  /\ UNCHANGED <<tailFrame, chanVars>>

\* out <- entry: a send on a closed channel panics, otherwise the entry is
\* buffered; the step is enabled only when the send can proceed
Enqueue(e) ==
  /\ closed \/ Len(queue) < QueueCap
  /\ IF closed
     THEN panicked' = TRUE /\ UNCHANGED <<queue, emitted>>
     ELSE /\ queue' = Append(queue, e)
          /\ emitted' = Append(emitted, e)
          /\ UNCHANGED panicked
  /\ UNCHANGED closed

\* single-line mode: select { case out <- entry: ... case <-ctx.Done():
\* file.Close(); return }
TailSend(t) ==
  /\ tailers[t].pc = "send"
  /\ \/ /\ Enqueue(LogEntry(t, tailers[t].pend))
        /\ tailers' = [tailers EXCEPT ![t] =
                         [@ EXCEPT !.pend = <<>>, !.pc = "loop"]]
        /\ UNCHANGED wg
     \/ /\ Cancelled(t)
        /\ tailers' = [tailers EXCEPT ![t] =
                         Finished([@ EXCEPT !.handle = NoFile])]
        /\ wg' = wg - 1
        /\ UNCHANGED chanVars
  /\ UNCHANGED tailFrame

\* flushBuffer's send: out <- entry, outside any select; then the caller
\* goes on
TailFSend(t) ==
  /\ tailers[t].pc = "fsend"
  /\ Enqueue(LogEntry(t, tailers[t].pend))
  /\ LET r  == tailers[t]
         r2 == AfterFlush([r EXCEPT !.pend = <<>>, !.cont = ""], r.cont)
     IN  /\ tailers' = [tailers EXCEPT ![t] = r2]
         /\ wg' = WgAfter(r, r2)
  /\ UNCHANGED tailFrame

\* mutant of TailEof: the truncation branch keeps the multiline buffer
TailEof_KeepBuffer(t) ==
  /\ tailers[t].pc = "eof"
  /\ LET r == tailers[t]
         f == fs[r.path]
         plain == [r EXCEPT !.fiId = r.handle, !.fiSize = Size(r.handle),
                            !.pc = "loop"]
     IN  tailers' = [tailers EXCEPT ![t] =
           IF f = NoFile THEN plain
           ELSE IF f # r.fiId
                THEN FlushBuffer(t, [r EXCEPT !.nfId = f, !.nfSize = Size(f),
                                              !.logged = @ \cup {"rotation"}],
                                 "rotopen")
           ELSE IF Size(f) < r.fiSize
                THEN [r EXCEPT !.off = 0, !.fiSize = Size(f),
                               !.logged = @ \cup {"truncation"},
                               !.pc = "loop"]
           ELSE plain]
  /\ UNCHANGED <<tailFrame, chanVars, wg>>

\* mutant of TailEof: the plain end of data flushes the buffer
TailEof_FlushAtEof(t) ==
  /\ tailers[t].pc = "eof"
  /\ LET r == tailers[t]
         f == fs[r.path]
         plain == FlushBuffer(t, [r EXCEPT !.fiId = r.handle,
                                           !.fiSize = Size(r.handle)], "loop")
     IN  tailers' = [tailers EXCEPT ![t] =
           IF f = NoFile THEN plain
           ELSE IF f # r.fiId
                THEN FlushBuffer(t, [r EXCEPT !.nfId = f, !.nfSize = Size(f),
                                              !.logged = @ \cup {"rotation"}],
                                 "rotopen")
           ELSE IF Size(f) < r.fiSize
                THEN [r EXCEPT !.mbuf = <<>>, !.off = 0, !.fiSize = Size(f),
                               !.logged = @ \cup {"truncation"},
                               !.pc = "loop"]
           ELSE plain]
  /\ UNCHANGED <<tailFrame, chanVars, wg>>

\* mutant of TailEof: the rotation branch does not call flushBuffer()
TailEof_NoRotationFlush(t) ==
  /\ tailers[t].pc = "eof"
  /\ LET r == tailers[t]
         f == fs[r.path]
         plain == [r EXCEPT !.fiId = r.handle, !.fiSize = Size(r.handle),
                            !.pc = "loop"]
     IN  tailers' = [tailers EXCEPT ![t] =
           IF f = NoFile THEN plain
           ELSE IF f # r.fiId
                THEN [r EXCEPT !.nfId = f, !.nfSize = Size(f),
                               !.logged = @ \cup {"rotation"},
                               !.pc = "rotopen"]
           ELSE IF Size(f) < r.fiSize
                THEN [r EXCEPT !.mbuf = <<>>, !.off = 0, !.fiSize = Size(f),
                               !.logged = @ \cup {"truncation"},
                               !.pc = "loop"]
           ELSE plain]
  /\ UNCHANGED <<tailFrame, chanVars, wg>>

\* io.EOF branch: os.Stat(path), then rotation / truncation / plain EOF
\* (fi = file.Stat(); time.Sleep(200ms); continue).  logged records which
\* of "File rotation detected" and "File truncation detected" the goroutine has
\* printed.
TailEof(t) ==
  /\ tailers[t].pc = "eof"
  /\ LET r == tailers[t]
         f == fs[r.path]
         plain == [r EXCEPT !.fiId = r.handle, !.fiSize = Size(r.handle),
                            !.pc = "loop"]
     IN  tailers' = [tailers EXCEPT ![t] =
           IF f = NoFile THEN plain
           ELSE IF f # r.fiId
                THEN FlushBuffer(t, [r EXCEPT !.nfId = f, !.nfSize = Size(f),
                                              !.logged = @ \cup {"rotation"}],
                                 "rotopen")
           ELSE IF Size(f) < r.fiSize
                THEN [r EXCEPT !.mbuf = <<>>, !.off = 0, !.fiSize = Size(f),
                               !.logged = @ \cup {"truncation"},
                               !.pc = "loop"]
           ELSE plain]
  /\ UNCHANGED <<tailFrame, chanVars, wg>>

\* io.EOF branch, truncation detected and file.Seek(0, io.SeekStart) fails:
\* the buffer is reset, the error counted as "seek_start", file.Close();
\* return
TailTruncSeekFail(t) ==
  /\ tailers[t].pc = "eof"
  /\ LET r  == tailers[t]
         f  == fs[r.path]
         r2 == Finished([IncFileErrors(r, "seek_start") EXCEPT
                           !.handle = NoFile])
     IN  /\ f # NoFile
         /\ f = r.fiId
         /\ Size(f) < r.fiSize
         /\ tailers' = [tailers EXCEPT ![t] = r2]
         /\ wg' = WgAfter(r, r2)
  /\ UNCHANGED <<tailFrame, chanVars>>

\* mutant of TailRotOpen: the goroutine returns when the open fails
TailRotOpen_GiveUp(t) ==
  /\ tailers[t].pc = "rotopen"
  /\ LET r  == tailers[t]
         r2 == IF fs[r.path] = NoFile
               THEN Finished([r EXCEPT !.handle = NoFile])
               ELSE [r EXCEPT !.handle = fs[r.path], !.fiId = r.nfId,
                              !.fiSize = r.nfSize, !.off = 0,
                              !.nfId = NoFile, !.nfSize = 0, !.pc = "loop"]
     IN  /\ tailers' = [tailers EXCEPT ![t] = r2]
         /\ wg' = WgAfter(r, r2)
  /\ UNCHANGED <<tailFrame, chanVars>>

\* mutant of TailRotOpen: the new file is read from the old offset
TailRotOpen_KeepOffset(t) ==
  /\ tailers[t].pc = "rotopen"
  /\ LET r == tailers[t]
     IN  tailers' = [tailers EXCEPT ![t] =
           IF fs[r.path] = NoFile
           THEN [r EXCEPT !.nfId = NoFile, !.nfSize = 0, !.fiId = r.handle,
                          !.fiSize = Size(r.handle), !.pc = "loop"]
           ELSE [r EXCEPT !.handle = fs[r.path], !.fiId = r.nfId,
                          !.fiSize = r.nfSize,
                          !.nfId = NoFile, !.nfSize = 0, !.pc = "loop"]]
  /\ UNCHANGED <<tailFrame, chanVars, wg>>

\* rotation: os.Open(path); on success close the old handle and switch to
\* the new file, else fall through to file.Stat() and the sleep
TailRotOpen(t) ==
  /\ tailers[t].pc = "rotopen"
  /\ LET r == tailers[t]
     IN  tailers' = [tailers EXCEPT ![t] =
           IF fs[r.path] = NoFile
           THEN [r EXCEPT !.nfId = NoFile, !.nfSize = 0, !.fiId = r.handle,
                          !.fiSize = Size(r.handle), !.pc = "loop"]
           ELSE [r EXCEPT !.handle = fs[r.path], !.fiId = r.nfId,
                          !.fiSize = r.nfSize, !.off = 0,
                          !.nfId = NoFile, !.nfSize = 0, !.pc = "loop"]]
  /\ UNCHANGED <<tailFrame, chanVars, wg>>

TailStep(t) ==
  \/ TailOpen(t)
  \/ TailLoop(t)
  \/ TailSend(t)
  \/ TailFSend(t)
  \/ TailEof(t)
  \/ TailRotOpen(t)

\* ------------------------------------------------------------------------
\* forwarder.WriteLogs
\* ------------------------------------------------------------------------
writerFrame == <<cfg, fs, content, nfiles, budget, written, truncated,
                 winWrite, rootCancel, runPc, tracked, wg, tailers, closed,
                 panicked, emitted>>

\* mutant of Serialize: format "raw" writes the event without a terminator
Serialize_RawNoTerminator(e, format) ==
  IF format = "raw"
  THEN [raw |-> e.event]
  ELSE IF e.fields = {}
       THEN [time |-> e.time, host |-> e.host, source |-> e.source,
             sourcetype |-> e.sourcetype, event |-> e.event]
       ELSE [time |-> e.time, host |-> e.host, source |-> e.source,
             sourcetype |-> e.sourcetype, event |-> e.event,
             fields |-> e.fields]

\* mutant of Serialize: the JSON object always has the "fields" member
Serialize_AlwaysFields(e, format) ==
  IF format = "raw"
  THEN [raw |-> e.event \o <<NL>>]
  ELSE [time |-> e.time, host |-> e.host, source |-> e.source,
        sourcetype |-> e.sourcetype, event |-> e.event,
        fields |-> e.fields]

\* what encoder.Encode / w.WriteString put into the buffer for one entry:
\* format "raw" writes the event and a line terminator; every other format
\* writes the JSON object, whose "fields" member is omitted when empty
Serialize(e, format) ==
  IF format = "raw"
  THEN [raw |-> e.event \o <<NL>>]
  ELSE IF e.fields = {}
       THEN [time |-> e.time, host |-> e.host, source |-> e.source,
             sourcetype |-> e.sourcetype, event |-> e.event]
       ELSE [time |-> e.time, host |-> e.host, source |-> e.source,
             sourcetype |-> e.sourcetype, event |-> e.event,
             fields |-> e.fields]

\* mutant of WriterRecv: what is written through goes before what the sink
\* holds
WriterRecv_Prepend ==
  /\ wpc = "run"
  /\ queue # <<>>
  /\ queue' = Tail(queue)
  /\ LET rec == Serialize(Head(queue), cfg.format)
     IN  IF Len(wbuf) >= WBufCap
         THEN sink' = wbuf \o sink /\ wbuf' = <<rec>>
         ELSE wbuf' = Append(wbuf, rec) /\ UNCHANGED sink
  /\ UNCHANGED <<writerFrame, wpc>>

\* case entry, ok := <-out with ok: serialize into the bufio.Writer, which
\* writes its content through when it is full
WriterRecv ==
  /\ wpc = "run"
  /\ queue # <<>>
  /\ queue' = Tail(queue)
  /\ LET rec == Serialize(Head(queue), cfg.format)
     IN  IF Len(wbuf) >= WBufCap
         THEN sink' = sink \o wbuf /\ wbuf' = <<rec>>
         ELSE wbuf' = Append(wbuf, rec) /\ UNCHANGED sink
  /\ UNCHANGED <<writerFrame, wpc>>

\* mutant of WriterTick: the timer case does not flush
WriterTick_NoFlush ==
  /\ wpc = "run"
  /\ UNCHANGED <<writerFrame, wpc, queue, wbuf, sink>>

\* case <-flushTicker.C: w.Flush()
WriterTick ==
  /\ wpc = "run"
  /\ sink' = sink \o wbuf
  /\ wbuf' = <<>>
  /\ UNCHANGED <<writerFrame, wpc, queue>>

\* mutant of WriterReturn: return without the deferred w.Flush()
WriterReturn_NoFlush ==
  /\ wpc = "run"
  /\ closed /\ queue = <<>>
  /\ wpc' = "done"
  /\ UNCHANGED <<writerFrame, queue, wbuf, sink>>

\* case entry, ok := <-out with !ok: return, running the deferred w.Flush()
WriterReturn ==
  /\ wpc = "run"
  /\ closed /\ queue = <<>>
  /\ sink' = sink \o wbuf
  /\ wbuf' = <<>>
  /\ wpc' = "done"
  /\ UNCHANGED <<writerFrame, queue>>

WriterStep == WriterRecv \/ WriterTick \/ WriterReturn

\* A write to os.Stdout that fails. The bufio.Writer keeps the error: it
\* accepts no more data, and every later WriteString, Write and Flush returns
\* that error without writing. WriteLogs drops the returned errors. wpc =
\* "runErr" is WriteLogs in its loop with such a bufio.Writer.

\* case <-flushTicker.C: w.Flush(), the write to os.Stdout fails
WriterTickFail ==
  /\ wpc = "run"
  /\ wbuf # <<>>
  /\ wpc' = "runErr"
  /\ UNCHANGED <<writerFrame, queue, wbuf, sink>>

\* case entry, ok := <-out with ok: the bufio.Writer is full and its write
\* to os.Stdout fails
WriterRecvFail ==
  /\ wpc = "run"
  /\ queue # <<>>
  /\ Len(wbuf) >= WBufCap
  /\ queue' = Tail(queue)
  /\ wpc' = "runErr"
  /\ UNCHANGED <<writerFrame, wbuf, sink>>

\* case entry, ok := <-out with ok, after a failed write: WriteString or
\* Encode returns the kept error, the entry is gone
WriterRecvErr ==
  /\ wpc = "runErr"
  /\ queue # <<>>
  /\ queue' = Tail(queue)
  /\ UNCHANGED <<writerFrame, wpc, wbuf, sink>>

\* case entry, ok := <-out with !ok, after a failed write: the deferred
\* w.Flush() returns the kept error
WriterReturnErr ==
  /\ wpc = "runErr"
  /\ closed /\ queue = <<>>
  /\ wpc' = "done"
  /\ UNCHANGED <<writerFrame, queue, wbuf, sink>>

\* WriteLogs takes an entry from the queue
WriterTake == WriterRecv \/ WriterRecvFail \/ WriterRecvErr

\* ------------------------------------------------------------------------
\* The file system and the shutdown signal
\* ------------------------------------------------------------------------
envFrame == <<cfg, rootCancel, runPc, tracked, wg, tailers, queue, closed,
              panicked, wpc, wbuf, sink, emitted>>

\* the Tailer in slot t is between the read that returned io.EOF and the
\* moment it has switched to the file it finds at the path
InWindow(t) ==
  \/ tailers[t].pc \in {"eof", "rotopen"}
  \/ tailers[t].pc = "fsend" /\ tailers[t].cont = "rotopen"

\* a Tailer holds an open handle on a file of path p
Reading(p) ==
  \E t \in Slots : tailers[t].path = p /\ tailers[t].handle # NoFile

\* a logging process appends one line to the file at path p
AppendLine(p, W) ==
  /\ budget > 0
  /\ fs[p] # NoFile
  /\ \E w \in W :
       /\ content' = [content EXCEPT ![fs[p]] = @ \o w]
       /\ written' = [written EXCEPT ![p] =
                        IF Reading(p) THEN Append(@, w) ELSE @]
  /\ budget' = budget - 1
  /\ winWrite' = (winWrite \/ \E t \in Slots : tailers[t].path = p /\ InWindow(t))
  /\ UNCHANGED <<envFrame, fs, nfiles, truncated>>

\* the file at path p is cut in place (copytruncate) to nothing or to some
\* of its first lines
Truncate(p) ==
  /\ budget > 0
  /\ fs[p] # NoFile
  /\ \E n \in {k \in 0..(Size(fs[p]) - 1) : k = 0 \/ content[fs[p]][k] = NL} :
       content' = [content EXCEPT ![fs[p]] = SubSeq(@, 1, n)]
  /\ budget' = budget - 1
  /\ truncated' = TRUE
  /\ UNCHANGED <<envFrame, fs, nfiles, written, winWrite>>

\* the file at path p is renamed away (or removed); open handles stay valid
RenameAway(p) ==
  /\ fs[p] # NoFile
  /\ fs' = [fs EXCEPT ![p] = NoFile]
  /\ UNCHANGED <<envFrame, content, nfiles, budget, written, truncated,
                 winWrite>>

\* a new, empty file is created at path p
CreateFile(p) ==
  /\ fs[p] = NoFile
  /\ nfiles < MaxFiles
  /\ nfiles' = nfiles + 1
  /\ fs' = [fs EXCEPT ![p] = nfiles + 1]
  /\ UNCHANGED <<envFrame, content, budget, written, truncated, winWrite>>

\* SIGINT / SIGTERM: signal.NotifyContext cancels the root context
Signal ==
  /\ ~rootCancel
  /\ rootCancel' = TRUE
  /\ UNCHANGED <<cfg, fs, content, nfiles, budget, written, truncated,
                 winWrite, runPc, tracked, wg, tailers, queue, closed,
                 panicked, wpc, wbuf, sink, emitted>>

\* ------------------------------------------------------------------------
\* agent.Agent
\* ------------------------------------------------------------------------
RECURSIVE SortedSeq(_)
SortedSeq(S) ==
  IF S = {} THEN <<>>
  ELSE LET m == CHOOSE x \in S : \A y \in S : x <= y
       IN  <<m>> \o SortedSeq(S \ {m})

\* filepath.Glob: the existing paths the pattern matches, in lexical order;
\* a malformed pattern yields no path (its error is dropped by discover)
Glob(pat) ==
  IF pat.bad THEN <<>>
  ELSE SortedSeq({p \in pat.match : fs[p] # NoFile})

\* mutant of TargetMatches: a pattern that fails to expand ends the loop
\* over the patterns of its target
RECURSIVE TargetMatches_StopAtBad(_, _)
TargetMatches_StopAtBad(i, j) ==
  IF j > Len(cfg.targets[i].paths) THEN <<>>
  ELSE IF cfg.targets[i].paths[j].bad THEN <<>>
  ELSE LET g == Glob(cfg.targets[i].paths[j])
       IN  [k \in 1..Len(g) |-> [tgt |-> i, path |-> g[k]]]
             \o TargetMatches_StopAtBad(i, j + 1)

\* the (target, path) pairs in the order discover's loops visit them
RECURSIVE TargetMatches(_, _)
TargetMatches(i, j) ==
  IF j > Len(cfg.targets[i].paths) THEN <<>>
  ELSE LET g == Glob(cfg.targets[i].paths[j])
       IN  [k \in 1..Len(g) |-> [tgt |-> i, path |-> g[k]]]
             \o TargetMatches(i, j + 1)

\* mutant of AllMatches: the targets are visited last to first
RECURSIVE AllMatches_LastFirst(_)
AllMatches_LastFirst(i) ==
  IF i > Len(cfg.targets) THEN <<>>
  ELSE AllMatches_LastFirst(i + 1) \o TargetMatches(i, 1)

RECURSIVE AllMatches(_)
AllMatches(i) ==
  IF i > Len(cfg.targets) THEN <<>>
  ELSE TargetMatches(i, 1) \o AllMatches(i + 1)

\* slots in which a new goroutine can be placed: no goroutine runs there and
\* no cancel function held in the tracked map belongs to it
FreeSlots(tr, tl) ==
  {s \in Slots : tl[s].pc \in {"none", "done"} /\ \A p \in Paths : tr[p] # s}

\* discover, first loop: for every matched path that is not tracked, store a
\* cancel function, wg.Add(1) and start TailFile bound to the target at hand
RECURSIVE StartTailers(_, _)
StartTailers(ms, st) ==
  IF ms = <<>> THEN st
  ELSE LET m == Head(ms)
       IN  IF st.tracked[m.path] # 0 THEN StartTailers(Tail(ms), st)
           ELSE LET free == FreeSlots(st.tracked, st.tailers)
                IN  IF free = {} THEN [st EXCEPT !.ok = FALSE]
                    ELSE LET s == CHOOSE x \in free : \A y \in free : x <= y
                         IN  StartTailers(Tail(ms),
                               [tracked |-> [st.tracked EXCEPT ![m.path] = s],
                                tailers |-> [st.tailers EXCEPT ![s] =
                                              [NoTailer EXCEPT !.pc = "open",
                                                               !.path = m.path,
                                                               !.tgt = m.tgt]],
                                wg      |-> st.wg + 1,
                                ok      |-> TRUE])

\* cancel(): the context of a goroutine that has returned is not observed
CancelSlots(tl, S) ==
  [s \in Slots |-> IF s \in S /\ tl[s].pc \notin {"none", "done"}
                   THEN [tl[s] EXCEPT !.cancel = TRUE] ELSE tl[s]]

\* mutant of Cleanup: the unmatched paths are cancelled but not deleted
Cleanup_NoDelete(st, active) ==
  [tracked |-> st.tracked,
   tailers |-> CancelSlots(st.tailers,
                 {st.tracked[p] : p \in {q \in Paths \ active :
                                           st.tracked[q] # 0}}),
   wg      |-> st.wg,
   ok      |-> st.ok]

\* discover, second loop: cancel and delete every tracked path that was not
\* matched in this cycle
Cleanup(st, active) ==
  [tracked |-> [p \in Paths |-> IF p \in active THEN st.tracked[p] ELSE 0],
   tailers |-> CancelSlots(st.tailers,
                 {st.tracked[p] : p \in {q \in Paths \ active :
                                           st.tracked[q] # 0}}),
   wg      |-> st.wg,
   ok      |-> st.ok]

\* activeInThisCycle
Active(ms) == {ms[k].path : k \in 1..Len(ms)}

agentFrame == <<cfg, fs, content, nfiles, budget, written, truncated,
                winWrite, rootCancel, queue, panicked, wbuf, sink, emitted>>

\* Run: start the writer goroutine, create the ticker
RunStart ==
  /\ runPc = "start"
  /\ wpc' = "run"
  /\ runPc' = "discover"
  /\ UNCHANGED <<agentFrame, tracked, wg, tailers, closed>>

\* a.discover(ctx), the whole cycle.  The step waits while the model has no
\* slot left for a goroutine it has to start.
Discover ==
  \E ms \in {AllMatches(1)} :
    \E st \in {StartTailers(ms, [tracked |-> tracked, tailers |-> tailers,
                                 wg |-> wg, ok |-> TRUE])} :
      \E d \in {Cleanup(st, Active(ms))} :
        /\ d.ok
        /\ tracked' = d.tracked
        /\ tailers' = d.tailers
        /\ wg' = d.wg

\* Run: the first a.discover(ctx) of the loop
RunDiscover ==
  /\ runPc = "discover"
  /\ Discover
  /\ runPc' = "select"
  /\ UNCHANGED <<agentFrame, closed, wpc>>

\* Run: case <-ticker.C: continue, and the a.discover(ctx) the loop then runs
RunTick ==
  /\ runPc = "select"
  /\ Discover
  /\ UNCHANGED <<agentFrame, runPc, closed, wpc>>

\* Run: case <-ctx.Done(): call every tracked cancel function
RunShutdown ==
  /\ runPc = "select"
  /\ rootCancel
  /\ tailers' = CancelSlots(tailers, {tracked[p] : p \in Paths} \ {0})
  /\ runPc' = "wait"
  /\ UNCHANGED <<agentFrame, tracked, wg, closed, wpc>>

\* mutant of RunWait: close(a.logCh) without a.wg.Wait()
RunWait_NoWait ==
  /\ runPc = "wait"
  /\ closed' = TRUE
  /\ runPc' = "wwait"
  /\ UNCHANGED <<agentFrame, tracked, wg, tailers, wpc>>

\* Run: a.wg.Wait(); close(a.logCh)
RunWait ==
  /\ runPc = "wait"
  /\ wg = 0
  /\ closed' = TRUE
  /\ runPc' = "wwait"
  /\ UNCHANGED <<agentFrame, tracked, wg, tailers, wpc>>

\* Run: writerWg.Wait(); return
RunReturn ==
  /\ runPc = "wwait"
  /\ wpc = "done"
  /\ runPc' = "returned"
  /\ UNCHANGED <<agentFrame, tracked, wg, tailers, closed, wpc>>

\* ------------------------------------------------------------------------
\* Specifications
\* ------------------------------------------------------------------------
NoPattern == ""

Target(name, match, exclude, multiline) ==
  [name |-> name, paths |-> <<[match |-> match, bad |-> FALSE]>>,
   exclude |-> exclude, multiline |-> multiline,
   fields |-> {<<"env", "prod">>}]

\* the agent: one target whose glob matches every path
AgentConfigs ==
  { [format |-> "json",
     targets |-> <<Target("t", Paths, NoPattern, ml)>>] : ml \in {NoPattern, "^S"} }

\* one Tailer on path 1, as the forwarder tests start it, without exclude
\* pattern, in single-line and in multiline mode
TailConfigs ==
  { [format |-> "json",
     targets |-> <<Target("t", {1}, NoPattern, ml)>>] :
       ml \in {NoPattern, "^S"} }

InitCommon ==
  /\ rootCancel = FALSE
  /\ queue = <<>>
  /\ closed = FALSE
  /\ panicked = FALSE
  /\ wbuf = <<>>
  /\ sink = <<>>
  /\ emitted = <<>>
  /\ written = [p \in Paths |-> <<>>]
  /\ truncated = FALSE
  /\ winWrite = FALSE

\* state after agent.New: nothing tracked, no goroutine started
Init ==
  /\ InitCommon
  /\ cfg \in AgentConfigs
  /\ content = [f \in FileIds |-> <<>>]
  /\ budget = MaxAgentOps
  /\ fs = [p \in Paths |-> IF p = 1 THEN 1 ELSE NoFile]
  /\ nfiles = 1
  /\ runPc = "start"
  /\ tracked = [p \in Paths |-> 0]
  /\ wg = 0
  /\ tailers = [s \in Slots |-> NoTailer]
  /\ wpc = "idle"

Next ==
  \/ RunStart
  \/ RunDiscover
  \/ RunTick
  \/ RunShutdown
  \/ RunWait
  \/ RunReturn
  \/ \E t \in Slots : TailStep(t)
  \/ WriterStep
  \/ \E p \in Paths : AppendLine(p, AgentPayloads)
  \/ \E p \in Paths : RenameAway(p)
  \/ \E p \in Paths : CreateFile(p)
  \/ Signal

Spec == Init /\ [][Next]_vars

RECURSIVE Repeat(_, _)
Repeat(w, n) == IF n = 0 THEN <<>> ELSE w \o Repeat(w, n - 1)

\* the agent some time after startup: Run waits in its select, the Tailer of
\* path 1 is in its read loop and LiveLines lines have been appended to the
\* file since the Tailer opened it
LiveInit ==
  /\ InitCommon
  /\ cfg \in AgentConfigs
  /\ content = [f \in FileIds |->
                  IF f = 1 THEN Repeat(<<"S", NL>>, LiveLines) ELSE <<>>]
  /\ budget = 0
  /\ fs = [p \in Paths |-> IF p = 1 THEN 1 ELSE NoFile]
  /\ nfiles = 1
  /\ runPc = "select"
  /\ tracked = [p \in Paths |-> IF p = 1 THEN 1 ELSE 0]
  /\ wg = 1
  /\ tailers = [s \in Slots |-> IF s = 1
                   THEN [NoTailer EXCEPT !.pc = "loop", !.path = 1, !.tgt = 1,
                                         !.handle = 1, !.fiId = 1]
                   ELSE NoTailer]
  /\ wpc = "run"

LiveNext ==
  \/ RunTick
  \/ RunShutdown
  \/ RunWait
  \/ RunReturn
  \/ \E t \in Slots : TailStep(t)
  \/ WriterStep
  \/ RenameAway(1)
  \/ CreateFile(1)
  \/ Signal

\* the Go scheduler runs every goroutine that can take a step, and a select
\* with several ready cases picks each of them eventually.  Of this the
\* specification assumes only weak fairness: Run takes the shutdown branch
\* once the root context is cancelled and goes on through its waits, the
\* Tailers taken together keep taking the steps they can take, and the
\* writer keeps receiving.  Nothing is assumed of the environment (renames,
\* the signal, the poll ticker, the flush ticker).
Fairness ==
  /\ WF_vars(RunShutdown \/ RunWait \/ RunReturn)
  /\ WF_vars(\E t \in Slots : TailStep(t))
  /\ WF_vars(WriterRecv \/ WriterReturn)

LiveSpec == LiveInit /\ [][LiveNext]_vars /\ Fairness

\* a single TailFile goroutine started on a file that already holds a line,
\* with a consumer on the channel:
\* wg.Add(1); go TailFile(ctx, &wg, path, out, opts)
TailInit ==
  /\ InitCommon
  /\ cfg \in TailConfigs
  /\ content = [f \in FileIds |-> IF f = 1 THEN <<"S", NL>> ELSE <<>>]
  /\ budget = MaxOps
  /\ fs = [p \in Paths |-> IF p = 1 THEN 1 ELSE NoFile]
  /\ nfiles = 1
  /\ runPc = "none"
  /\ tracked = [p \in Paths |-> 0]
  /\ wg = 1
  /\ tailers = [s \in Slots |-> IF s = 1
                   THEN [NoTailer EXCEPT !.pc = "open", !.path = 1, !.tgt = 1]
                   ELSE NoTailer]
  /\ wpc = "run"

TailNext ==
  \/ TailStep(1)
  \/ WriterRecv
  \/ AppendLine(1, Payloads)
  \/ Truncate(1)
  \/ RenameAway(1)
  \/ CreateFile(1)
  \/ Signal

SpecTail == TailInit /\ [][TailNext]_vars

\* the single TailFile goroutine of TailInit on a file that a logging process
\* appends equal lines to and that is truncated in place; the environment
\* has room for two appends followed by a truncation.  As in the forwarder
\* tests, lines are written once the Tailer has opened the file.
TruncInit ==
  /\ InitCommon
  /\ cfg \in TailConfigs
  /\ content = [f \in FileIds |-> IF f = 1 THEN <<"S", NL>> ELSE <<>>]
  /\ budget = MaxTruncOps
  /\ fs = [p \in Paths |-> IF p = 1 THEN 1 ELSE NoFile]
  /\ nfiles = 1
  /\ runPc = "none"
  /\ tracked = [p \in Paths |-> 0]
  /\ wg = 1
  /\ tailers = [s \in Slots |-> IF s = 1
                   THEN [NoTailer EXCEPT !.pc = "open", !.path = 1, !.tgt = 1]
                   ELSE NoTailer]
  /\ wpc = "run"

TruncNext ==
  \/ TailStep(1)
  \/ WriterRecv
  \/ Reading(1) /\ AppendLine(1, AgentPayloads)
  \/ Truncate(1)
  \/ RenameAway(1)
  \/ CreateFile(1)
  \/ Signal

SpecTrunc == TruncInit /\ [][TruncNext]_vars

\* the line the file holds before the Tailer is started; no logging process
\* writes it afterwards
HistoricLine == <<"H", NL>>

\* as TruncInit, the file holding the historic line
HistInit ==
  /\ InitCommon
  /\ cfg \in TailConfigs
  /\ content = [f \in FileIds |-> IF f = 1 THEN HistoricLine ELSE <<>>]
  /\ budget = MaxTruncOps
  /\ fs = [p \in Paths |-> IF p = 1 THEN 1 ELSE NoFile]
  /\ nfiles = 1
  /\ runPc = "none"
  /\ tracked = [p \in Paths |-> 0]
  /\ wg = 1
  /\ tailers = [s \in Slots |-> IF s = 1
                   THEN [NoTailer EXCEPT !.pc = "open", !.path = 1, !.tgt = 1]
                   ELSE NoTailer]
  /\ wpc = "run"

SpecHist == HistInit /\ [][TruncNext]_vars

\* one Tailer on path 1 with and without exclude pattern, in single-line and
\* in multiline mode
RecConfigs ==
  { [format |-> "json",
     targets |-> <<Target("t", {1}, ex, ml)>>] :
       ex \in {NoPattern, "X"}, ml \in {NoPattern, "^S"} }

\* record assembly: the single TailFile goroutine of TailInit on a file that
\* is only appended to, with a consumer on the channel
RecInit ==
  /\ InitCommon
  /\ cfg \in RecConfigs
  /\ content = [f \in FileIds |-> IF f = 1 THEN <<"S", NL>> ELSE <<>>]
  /\ budget = MaxRecOps
  /\ fs = [p \in Paths |-> IF p = 1 THEN 1 ELSE NoFile]
  /\ nfiles = 1
  /\ runPc = "none"
  /\ tracked = [p \in Paths |-> 0]
  /\ wg = 1
  /\ tailers = [s \in Slots |-> IF s = 1
                   THEN [NoTailer EXCEPT !.pc = "open", !.path = 1, !.tgt = 1]
                   ELSE NoTailer]
  /\ wpc = "run"

\* the file is neither renamed nor replaced, so the Tailer never reaches the
\* os.Open of a rotated file
RecNext ==
  \/ TailOpen(1)
  \/ TailLoop(1)
  \/ TailSend(1)
  \/ TailFSend(1)
  \/ TailEof(1)
  \/ WriterRecv
  \/ AppendLine(1, Payloads)

SpecRec == RecInit /\ [][RecNext]_vars

\* one Tailer on path 1 in multiline mode, with and without an exclude
\* pattern
RotConfigs ==
  { [format |-> "json",
     targets |-> <<Target("t", {1}, ex, "^S")>>] : ex \in {NoPattern, "X"} }

\* the Tailer of RecInit in multiline mode on a file that is appended to and
\* rotated: renamed away, a new file created at the path
RotInit ==
  /\ InitCommon
  /\ cfg \in RotConfigs
  /\ content = [f \in FileIds |-> IF f = 1 THEN <<"S", NL>> ELSE <<>>]
  /\ budget = MaxRecOps
  /\ fs = [p \in Paths |-> IF p = 1 THEN 1 ELSE NoFile]
  /\ nfiles = 1
  /\ runPc = "none"
  /\ tracked = [p \in Paths |-> 0]
  /\ wg = 1
  /\ tailers = [s \in Slots |-> IF s = 1
                   THEN [NoTailer EXCEPT !.pc = "open", !.path = 1, !.tgt = 1]
                   ELSE NoTailer]
  /\ wpc = "run"

\* the lines written to a rotated file: a continuation line, which also
\* matches the exclude pattern, and a start line
RotPayloads == { <<SP, "X", NL>>, <<"S", NL>> }

RotNext ==
  \/ TailOpen(1)
  \/ TailLoop(1)
  \/ TailFSend(1)
  \/ TailEof(1)
  \/ TailRotOpen(1)
  \/ WriterRecv
  \/ AppendLine(1, RotPayloads)
  \/ RenameAway(1)
  \/ CreateFile(1)

SpecRot == RotInit /\ [][RotNext]_vars

\* one Tailer on path 1 in single-line mode
PartialConfigs ==
  { [format |-> "json",
     targets |-> <<Target("t", {1}, NoPattern, NoPattern)>>] }

\* the writes of a logging process that writes the line "ab" in two parts
Chunks == { <<"a">>, <<"b", NL>> }

\* the Tailer of RecInit in single-line mode; as in the forwarder tests,
\* the file is written once the Tailer has opened it
PartialInit ==
  /\ InitCommon
  /\ cfg \in PartialConfigs
  /\ content = [f \in FileIds |-> IF f = 1 THEN <<"S", NL>> ELSE <<>>]
  /\ budget = MaxRecOps
  /\ fs = [p \in Paths |-> IF p = 1 THEN 1 ELSE NoFile]
  /\ nfiles = 1
  /\ runPc = "none"
  /\ tracked = [p \in Paths |-> 0]
  /\ wg = 1
  /\ tailers = [s \in Slots |-> IF s = 1
                   THEN [NoTailer EXCEPT !.pc = "open", !.path = 1, !.tgt = 1]
                   ELSE NoTailer]
  /\ wpc = "run"

PartialNext ==
  \/ TailOpen(1)
  \/ TailLoop(1)
  \/ TailSend(1)
  \/ TailEof(1)
  \/ WriterRecv
  \/ Reading(1) /\ AppendLine(1, Chunks)

SpecPartial == PartialInit /\ [][PartialNext]_vars

\* the Tailer of TruncInit with every way TailFile has to return: the
\* seeks, the stat and the reads may fail
ExitNext ==
  \/ TailStep(1)
  \/ TailOpenSeekFail(1)
  \/ TailOpenStatFail(1)
  \/ TailReadErr(1)
  \/ TailTruncSeekFail(1)
  \/ WriterRecv
  \/ Reading(1) /\ AppendLine(1, AgentPayloads)
  \/ Truncate(1)
  \/ RenameAway(1)
  \/ CreateFile(1)
  \/ Signal

SpecExit == TruncInit /\ [][ExitNext]_vars

\* the Tailer of RecInit on a file whose reads may fail
ReadErrNext ==
  \/ TailOpen(1)
  \/ TailLoop(1)
  \/ TailReadErr(1)
  \/ TailSend(1)
  \/ TailFSend(1)
  \/ TailEof(1)
  \/ WriterRecv
  \/ AppendLine(1, Payloads)

SpecReadErr == RecInit /\ [][ReadErrNext]_vars

\* the agent with one target for every path, with two targets for one path
\* each, and with two targets that match the same paths
DiscConfigs ==
  { [format |-> "json", targets |-> <<Target("t", Paths, NoPattern, NoPattern)>>],
    [format |-> "json", targets |-> <<Target("a", {1}, NoPattern, NoPattern),
                                      Target("b", Paths \ {1}, NoPattern, NoPattern)>>],
    [format |-> "json", targets |-> <<Target("a", Paths, NoPattern, NoPattern),
                                      Target("b", Paths, NoPattern, NoPattern)>>] }

\* discovery: the agent after agent.New as in Init, on files that are
\* created and removed and to which nothing is written
DiscInit ==
  /\ InitCommon
  /\ cfg \in DiscConfigs
  /\ content = [f \in FileIds |-> <<>>]
  /\ budget = 0
  /\ fs = [p \in Paths |-> IF p = 1 THEN 1 ELSE NoFile]
  /\ nfiles = 1
  /\ runPc = "start"
  /\ tracked = [p \in Paths |-> 0]
  /\ wg = 0
  /\ tailers = [s \in Slots |-> NoTailer]
  /\ wpc = "idle"

\* the files stay empty: no Tailer reaches a channel send
DiscNext ==
  \/ RunStart
  \/ RunDiscover
  \/ RunTick
  \/ \E t \in Slots : TailOpen(t) \/ TailLoop(t) \/ TailEof(t) \/ TailRotOpen(t)
  \/ \E p \in Paths : RenameAway(p)
  \/ \E p \in Paths : CreateFile(p)

SpecDisc == DiscInit /\ [][DiscNext]_vars

\* a glob pattern that filepath.Glob rejects (ErrBadPattern), and a
\* well-formed one matching the paths of S
BadGlob == [match |-> {}, bad |-> TRUE]
GoodGlob(S) == [match |-> S, bad |-> FALSE]
GlobTarget(name, pats) ==
  [name |-> name, paths |-> pats, exclude |-> NoPattern,
   multiline |-> NoPattern, fields |-> {<<"env", "prod">>}]

\* configurations with a malformed glob pattern before, between and after
\* the well-formed patterns of its target, and in the first or the second of
\* two targets
GlobConfigs ==
  { [format |-> "json", targets |-> ts] :
      ts \in { <<GlobTarget("a", <<BadGlob, GoodGlob(Paths)>>)>>,
               <<GlobTarget("a", <<GoodGlob({1}), BadGlob, GoodGlob(Paths \ {1})>>)>>,
               <<GlobTarget("a", <<BadGlob, GoodGlob({1})>>),
                 GlobTarget("b", <<GoodGlob(Paths \ {1})>>)>>,
               <<GlobTarget("a", <<GoodGlob({1})>>),
                 GlobTarget("b", <<GoodGlob(Paths \ {1}), BadGlob>>)>>,
               <<GlobTarget("a", <<BadGlob>>),
                 GlobTarget("b", <<GoodGlob(Paths)>>)>> } }

\* discovery as in DiscInit, with a glob pattern that fails to expand
GlobInit ==
  /\ InitCommon
  /\ cfg \in GlobConfigs
  /\ content = [f \in FileIds |-> <<>>]
  /\ budget = 0
  /\ fs = [p \in Paths |-> IF p = 1 THEN 1 ELSE NoFile]
  /\ nfiles = 1
  /\ runPc = "start"
  /\ tracked = [p \in Paths |-> 0]
  /\ wg = 0
  /\ tailers = [s \in Slots |-> NoTailer]
  /\ wpc = "idle"

SpecGlob == GlobInit /\ [][DiscNext]_vars

\* the lines of the ordering specification: a start line and a continuation
\* line
OrderPayloads == { <<"S", NL>>, <<SP, "X", NL>> }

\* the two paths whose files are tailed in the ordering specification
OrderPaths == {p \in Paths : p <= 2}

\* ordering: two TailFile goroutines, each in the read loop on a file of its
\* own that was empty when it was opened, both sending on the one channel
\* the writer receives from
OrderInit ==
  /\ InitCommon
  /\ cfg \in AgentConfigs
  /\ content = [f \in FileIds |-> <<>>]
  /\ budget = MaxOrderOps
  /\ fs = [p \in Paths |-> IF p \in OrderPaths THEN p ELSE NoFile]
  /\ nfiles = Cardinality(OrderPaths)
  /\ runPc = "none"
  /\ tracked = [p \in Paths |-> 0]
  /\ wg = Cardinality(OrderPaths)
  /\ tailers = [s \in Slots |-> IF s \in OrderPaths
                   THEN [NoTailer EXCEPT !.pc = "loop", !.path = s, !.tgt = 1,
                                         !.handle = s, !.fiId = s]
                   ELSE NoTailer]
  /\ wpc = "run"

\* no file is renamed or replaced, and the channel is not closed
OrderNext ==
  \/ \E t \in OrderPaths : TailLoop(t) \/ TailSend(t) \/ TailFSend(t)
                              \/ TailEof(t)
  \/ WriterRecv
  \/ WriterTick
  \/ \E p \in OrderPaths : AppendLine(p, OrderPayloads)

SpecOrder == OrderInit /\ [][OrderNext]_vars

\* regexp.Compile: a malformed pattern yields an error and no regexp
Nil == "nil"
\* the nil *Agent and the nil error of agent.New; an Agent is a sequence of
\* one record, an error a sequence of message and target name
NoAgent == <<>>
NoError == <<>>
MalformedPatterns == {"[", "("}
Compile(pat) ==
  IF pat \in MalformedPatterns THEN [re |-> Nil, err |-> "syntax"]
  ELSE [re |-> pat, err |-> Nil]

\* mutant of NewFrom: the multiline pattern is taken as it is, uncompiled
RECURSIVE NewFrom_NoMultilineCompile(_, _, _)
NewFrom_NoMultilineCompile(c, i, cache) ==
  IF i > Len(c.targets)
  THEN [agent |-> <<[cfg |-> c, hostname |-> Hostname, tracked |-> {},
                     regexCache |-> cache]>>,
        err |-> NoError]
  ELSE LET target == c.targets[i]
           ex == IF target.exclude # "" THEN Compile(target.exclude)
                 ELSE [re |-> Nil, err |-> Nil]
           ml == [re |-> target.multiline, err |-> Nil]
       IN  IF ex.err # Nil
           THEN [agent |-> NoAgent, err |-> <<"invalid exclude_pattern", target.name>>]
           ELSE IF ml.err # Nil
           THEN [agent |-> NoAgent, err |-> <<"invalid multiline_pattern", target.name>>]
           ELSE NewFrom_NoMultilineCompile(c, i + 1,
                  Append(cache, [exclude |-> ex.re, multiline |-> ml.re]))

\* agent.New, from target i on: the patterns of every target are compiled
\* in turn, a pattern that is empty is not; the first error is returned with
\* no Agent
RECURSIVE NewFrom(_, _, _)
NewFrom(c, i, cache) ==
  IF i > Len(c.targets)
  THEN [agent |-> <<[cfg |-> c, hostname |-> Hostname, tracked |-> {},
                     regexCache |-> cache]>>,
        err |-> NoError]
  ELSE LET target == c.targets[i]
           ex == IF target.exclude # "" THEN Compile(target.exclude)
                 ELSE [re |-> Nil, err |-> Nil]
           ml == IF target.multiline # "" THEN Compile(target.multiline)
                 ELSE [re |-> Nil, err |-> Nil]
       IN  IF ex.err # Nil
           THEN [agent |-> NoAgent, err |-> <<"invalid exclude_pattern", target.name>>]
           ELSE IF ml.err # Nil
           THEN [agent |-> NoAgent, err |-> <<"invalid multiline_pattern", target.name>>]
           ELSE NewFrom(c, i + 1,
                  Append(cache, [exclude |-> ex.re, multiline |-> ml.re]))

New(c) == NewFrom(c, 1, <<>>)

\* runForwarder: ag, err := agent.New(&cfg, hostname); on an error it returns
\* the error, else it calls ag.Run(ctx)
MainNew ==
  /\ runPc = "new"
  /\ runPc' = IF New(cfg).err # NoError THEN "failed" ELSE "start"
  /\ UNCHANGED <<agentFrame, tracked, wg, tailers, closed, wpc>>

\* the patterns of the configurations handed to agent.New
ExcludeInputs == {NoPattern, "X", "["}
MultilineInputs == {NoPattern, "^S", "("}

\* configurations of up to MaxTargets targets, each matching every path
NewConfigs ==
  { [format |-> "json", targets |-> ts] :
      ts \in UNION { [1..n -> { Target(nm, Paths, ex, ml) :
                                  nm \in {"t"}, ex \in ExcludeInputs,
                                  ml \in MultilineInputs }] :
                      n \in 1..MaxTargets } }

\* runForwarder after cfg.Validate, before agent.New
NewInit ==
  /\ InitCommon
  /\ cfg \in NewConfigs
  /\ content = [f \in FileIds |-> <<>>]
  /\ budget = 0
  /\ fs = [p \in Paths |-> IF p = 1 THEN 1 ELSE NoFile]
  /\ nfiles = 1
  /\ runPc = "new"
  /\ tracked = [p \in Paths |-> 0]
  /\ wg = 0
  /\ tailers = [s \in Slots |-> NoTailer]
  /\ wpc = "idle"

NewNext ==
  \/ MainNew
  \/ RunStart
  \/ RunDiscover
  \/ \E t \in Slots : TailOpen(t)

SpecNew == NewInit /\ [][NewNext]_vars

\* time.ParseDuration, for a duration of one component: an optional sign, a
\* decimal number without fraction and a unit, or "0" by itself; the duration
\* is counted in seconds
DigitChars == <<"0", "1", "2", "3", "4", "5", "6", "7", "8", "9">>
IsDigit(c) == \E i \in 1..Len(DigitChars) : DigitChars[i] = c
DigitValue(c) == (CHOOSE i \in 1..Len(DigitChars) : DigitChars[i] = c) - 1

RECURSIVE DecimalValue(_)
DecimalValue(ds) ==
  IF ds = <<>> THEN 0
  ELSE 10 * DecimalValue(SubSeq(ds, 1, Len(ds) - 1)) + DigitValue(ds[Len(ds)])

UnitSeconds(u) ==
  CASE u = "s" -> 1
    [] u = "m" -> 60
    [] u = "h" -> 3600

ParseDuration(str) ==
  LET signed == str # <<>> /\ str[1] \in {"-", "+"}
      body   == IF signed THEN Tail(str) ELSE str
      num    == SubSeq(body, 1, Len(body) - 1)
  IN  IF str = <<>> THEN [d |-> 0, err |-> "invalid duration"]
      ELSE IF body = <<"0">> THEN [d |-> 0, err |-> Nil]
      ELSE IF \/ Len(body) < 2
              \/ \E i \in 1..Len(num) : ~IsDigit(num[i])
              \/ body[Len(body)] \notin {"s", "m", "h"}
           THEN [d |-> 0, err |-> "invalid duration"]
           ELSE [d |-> (IF str[1] = "-" THEN -1 ELSE 1)
                         * DecimalValue(num) * UnitSeconds(body[Len(body)]),
                 err |-> Nil]

\* mutant of Validate: an empty target list is accepted
Validate_NoTargetsCheck(c) ==
  IF c.pollInterval = <<>>
  THEN [cfg |-> c, dur |-> 0, err |-> <<"poll_interval must be set">>]
  ELSE LET c1 == IF c.format = "" THEN [c EXCEPT !.format = "json"] ELSE c
           pd == ParseDuration(c1.pollInterval)
       IN  IF c1.format # "json" /\ c1.format # "raw"
           THEN [cfg |-> c1, dur |-> 0, err |-> <<"invalid output_format">>]
           ELSE IF pd.err # Nil
           THEN [cfg |-> c1, dur |-> 0, err |-> <<"invalid poll_interval">>]
           ELSE [cfg |-> c1, dur |-> pd.d, err |-> NoError]

\* Config.Validate: the configuration as the call leaves it, the duration
\* and the error returned
Validate(c) ==
  IF c.pollInterval = <<>>
  THEN [cfg |-> c, dur |-> 0, err |-> <<"poll_interval must be set">>]
  ELSE LET c1 == IF c.format = "" THEN [c EXCEPT !.format = "json"] ELSE c
           pd == ParseDuration(c1.pollInterval)
       IN  IF c1.format # "json" /\ c1.format # "raw"
           THEN [cfg |-> c1, dur |-> 0, err |-> <<"invalid output_format">>]
           ELSE IF pd.err # Nil
           THEN [cfg |-> c1, dur |-> 0, err |-> <<"invalid poll_interval">>]
           ELSE IF Len(c1.targets) = 0
           THEN [cfg |-> c1, dur |-> 0, err |-> <<"no targets configured">>]
           ELSE [cfg |-> c1, dur |-> pd.d, err |-> NoError]

\* runForwarder: if _, err := cfg.Validate(); err != nil { return ... }
MainValidate ==
  /\ runPc = "validate"
  /\ cfg' = Validate(cfg).cfg
  /\ runPc' = IF Validate(cfg).err # NoError THEN "failed" ELSE "new"
  /\ UNCHANGED <<fs, content, nfiles, budget, rootCancel, tracked, wg,
                 tailers, queue, closed, panicked, wpc, wbuf, sink, emitted,
                 written, truncated, winWrite>>

\* Run with the poll interval of the configuration: the writer goroutine is
\* started, pollDur, _ := time.ParseDuration(a.cfg.PollInterval), and
\* time.NewTicker(pollDur) panics when pollDur is not positive
RunStartPoll ==
  /\ runPc = "start"
  /\ wpc' = "run"
  /\ IF ParseDuration(cfg.pollInterval).d > 0
     THEN runPc' = "discover" /\ UNCHANGED panicked
     ELSE runPc' = "panic" /\ panicked' = TRUE
  /\ UNCHANGED <<cfg, fs, content, nfiles, budget, rootCancel, tracked, wg,
                 tailers, queue, closed, wbuf, sink, emitted, written,
                 truncated, winWrite>>

\* the poll_interval and output_format values of the configurations handed
\* to Config.Validate
PollInputs ==
  { <<>>, <<"5", "s">>, <<"1", "m">>, <<"0">>, <<"-", "1", "s">>, <<"5">>,
    <<"a", "s">> }
FormatInputs == {"", "json", "raw", "xml"}

\* configurations as config.Load returns them, with up to MaxTargets targets
ValidateConfigs ==
  { [pollInterval |-> pi, format |-> fmt, targets |-> ts] :
      pi \in PollInputs, fmt \in FormatInputs,
      ts \in { [i \in 1..n |-> Target("t", Paths, NoPattern, NoPattern)] :
                 n \in 0..MaxTargets } }

\* runForwarder after config.Load, before cfg.Validate
ValidateInit ==
  /\ InitCommon
  /\ cfg \in ValidateConfigs
  /\ content = [f \in FileIds |-> <<>>]
  /\ budget = 0
  /\ fs = [p \in Paths |-> IF p = 1 THEN 1 ELSE NoFile]
  /\ nfiles = 1
  /\ runPc = "validate"
  /\ tracked = [p \in Paths |-> 0]
  /\ wg = 0
  /\ tailers = [s \in Slots |-> NoTailer]
  /\ wpc = "idle"

ValidateNext ==
  \/ MainValidate
  \/ MainNew
  \/ RunStartPoll

SpecValidate == ValidateInit /\ [][ValidateNext]_vars

\* a target with its own field map
FieldTarget(name, match, multiline, fields) ==
  [name |-> name, paths |-> <<GoodGlob(match)>>, exclude |-> NoPattern,
   multiline |-> multiline, fields |-> fields]

\* two targets, one file each: the first with two custom fields, the second
\* with none, each in single-line or in multiline mode
FieldConfigs ==
  { [format |-> "json",
     targets |-> <<FieldTarget("a", {1}, ml1,
                               {<<"env", "production">>, <<"app", "payment">>}),
                   FieldTarget("b", Paths \ {1}, ml2, {})>>] :
      ml1 \in {NoPattern, "^S"}, ml2 \in {NoPattern, "^S"} }

\* enrichment: as OrderInit, the Tailer of path 1 started for the first
\* target and the Tailer of path 2 for the second
FieldsInit ==
  /\ InitCommon
  /\ cfg \in FieldConfigs
  /\ content = [f \in FileIds |-> <<>>]
  /\ budget = MaxOrderOps
  /\ fs = [p \in Paths |-> IF p \in OrderPaths THEN p ELSE NoFile]
  /\ nfiles = Cardinality(OrderPaths)
  /\ runPc = "none"
  /\ tracked = [p \in Paths |-> 0]
  /\ wg = Cardinality(OrderPaths)
  /\ tailers = [s \in Slots |-> IF s \in OrderPaths
                   THEN [NoTailer EXCEPT !.pc = "loop", !.path = s,
                                         !.tgt = IF s = 1 THEN 1 ELSE 2,
                                         !.handle = s, !.fiId = s]
                   ELSE NoTailer]
  /\ wpc = "run"

FieldsNext ==
  \/ \E t \in OrderPaths : TailLoop(t) \/ TailSend(t) \/ TailFSend(t)
                              \/ TailEof(t)
  \/ WriterRecv
  \/ \E p \in OrderPaths : AppendLine(p, OrderPayloads)

SpecFields == FieldsInit /\ [][FieldsNext]_vars

\* the entries the writer tests send: a one-line and a two-line event, with
\* and without fields
TestEntries ==
  { [time |-> Now, host |-> Hostname, source |-> 1, sourcetype |-> "t",
     event |-> ev, fields |-> fl] :
      ev \in { <<"h">>, <<"S", NL, SP, "X">> },
      fl \in { {}, {<<"env", "prod">>} } }

\* WriteLogs is called with the format of the configuration; "text" stands
\* for a value that is neither "json" nor "raw"
WriterConfigs ==
  { [format |-> fmt, targets |-> <<Target("t", Paths, NoPattern, NoPattern)>>] :
      fmt \in {"json", "raw", "text"} }

\* the writer tests: outCh <- entry
TestSend ==
  /\ budget > 0
  /\ ~closed
  /\ \E e \in TestEntries : Enqueue(e)
  /\ budget' = budget - 1
  /\ UNCHANGED <<cfg, fs, content, nfiles, written, truncated, winWrite,
                 rootCancel, runPc, tracked, wg, tailers, wpc, wbuf, sink>>

\* the writer tests: close(outCh)
TestClose ==
  /\ ~closed
  /\ closed' = TRUE
  /\ UNCHANGED <<cfg, fs, content, nfiles, budget, written, truncated,
                 winWrite, rootCancel, runPc, tracked, wg, tailers, queue,
                 panicked, emitted, wpc, wbuf, sink>>

\* WriteLogs alone, as the writer tests start it: no agent, no Tailer
WriterInit ==
  /\ InitCommon
  /\ cfg \in WriterConfigs
  /\ content = [f \in FileIds |-> <<>>]
  /\ budget = MaxWriterOps
  /\ fs = [p \in Paths |-> NoFile]
  /\ nfiles = 0
  /\ runPc = "none"
  /\ tracked = [p \in Paths |-> 0]
  /\ wg = 0
  /\ tailers = [s \in Slots |-> NoTailer]
  /\ wpc = "run"

WriterNext ==
  \/ TestSend
  \/ TestClose
  \/ WriterRecv
  \/ WriterTick
  \/ WriterReturn

SpecWriter == WriterInit /\ [][WriterNext]_vars

\* flushTicker fires every 500 ms while WriteLogs runs, and a select with
\* several ready cases picks one at random: the timer case is taken
WriterFairness == WF_vars(WriterTick)

SpecWriterLive == WriterInit /\ [][WriterNext]_vars /\ WriterFairness

\* WriteLogs alone, with writes to os.Stdout that may fail
WriterFailNext ==
  \/ TestSend
  \/ TestClose
  \/ WriterRecv
  \/ WriterTick
  \/ WriterReturn
  \/ WriterTickFail
  \/ WriterRecvFail
  \/ WriterRecvErr
  \/ WriterReturnErr

SpecWriterFail == WriterInit /\ [][WriterFailNext]_vars

\* the agent with one multiline target
FlushConfigs ==
  { [format |-> fmt,
     targets |-> <<Target("t", Paths, NoPattern, "^S")>>] :
       fmt \in {"json", "raw"} }

\* the agent some time after startup, as in LiveInit: LiveLines - 1 records
\* of one line, then a start line and a continuation line have been appended
\* to the file since the Tailer opened it
FlushInit ==
  /\ InitCommon
  /\ cfg \in FlushConfigs
  /\ content = [f \in FileIds |->
                  IF f = 1
                  THEN Repeat(<<"S", NL>>, LiveLines - 1)
                         \o <<"S", NL, SP, "X", NL>>
                  ELSE <<>>]
  /\ budget = 0
  /\ fs = [p \in Paths |-> IF p = 1 THEN 1 ELSE NoFile]
  /\ nfiles = 1
  /\ runPc = "select"
  /\ tracked = [p \in Paths |-> IF p = 1 THEN 1 ELSE 0]
  /\ wg = 1
  /\ tailers = [s \in Slots |-> IF s = 1
                   THEN [NoTailer EXCEPT !.pc = "loop", !.path = 1, !.tgt = 1,
                                         !.handle = 1, !.fiId = 1]
                   ELSE NoTailer]
  /\ wpc = "run"

\* the file is not rotated and the target is a multiline one: the Tailer
\* reaches neither the os.Open of a rotated file nor the single-line send
FlushNext ==
  \/ RunTick
  \/ RunShutdown
  \/ RunWait
  \/ RunReturn
  \/ TailLoop(1)
  \/ TailFSend(1)
  \/ TailEof(1)
  \/ WriterStep
  \/ Signal

\* the scheduling assumptions of LiveSpec
SpecFlush == FlushInit /\ [][FlushNext]_vars /\ Fairness

\* ------------------------------------------------------------------------
\* Properties
\* ------------------------------------------------------------------------
\* C1: at no time do two Tailer goroutines for the same path run
\* concurrently
C1_OneTailerPerPath ==
  \A t1, t2 \in Slots :
    (t1 # t2 /\ Live(t1) /\ Live(t2)) => tailers[t1].path # tailers[t2].path

\* C2: the queue is closed only after every Tailer ever started, tracked or
\* not, has returned; no Tailer sends on the closed queue; Run returns only
\* after the writer has returned
C2_ShutdownOrder ==
  /\ closed => (wg = 0 /\ \A t \in Slots : ~Live(t))
  /\ ~panicked
  /\ runPc = "returned" => wpc = "done"

\* Run has returned after a shutdown in which a Tailer that discover had
\* already dropped from the tracked map and a tracked Tailer both took part
C2_Witness ==
  /\ runPc = "returned"
  /\ emitted # <<>>
  /\ \E t \in Slots : tailers[t].pc = "done" /\ \A p \in Paths : tracked[p] # t
  /\ \E p \in Paths : tracked[p] # 0

\* C3: once the root context is cancelled, Run eventually returns
C3_ShutdownCompletes == rootCancel ~> (runPc = "returned")

\* Run has begun the shutdown while the queue is full and a Tailer is in a
\* channel send
C3_Witness ==
  /\ rootCancel
  /\ runPc = "wait"
  /\ Len(queue) = QueueCap
  /\ \E t \in Slots : tailers[t].pc \in {"send", "fsend"}

\* C4: a cancelled Tailer that is blocked sending on the full queue can take
\* a step (which ends it) although the queue has no space, in the single-line
\* send and in flushBuffer's send
C4_BlockedSendAbandoned ==
  \A t \in Slots :
    (/\ tailers[t].pc \in {"send", "fsend"}
     /\ Cancelled(t)
     /\ ~closed
     /\ Len(queue) = QueueCap)
    => ENABLED TailStep(t)

\* C5: when WriteLogs has returned the queue was closed and is drained, and
\* the sink holds the serialization of every entry ever enqueued, in order
C5_WriterDrains ==
  wpc = "done" =>
    /\ closed /\ queue = <<>> /\ wbuf = <<>>
    /\ sink = [i \in 1..Len(emitted) |-> Serialize(emitted[i], cfg.format)]

\* the writer has returned after writing the entries of a shutdown
C5_Witness == wpc = "done" /\ Len(sink) >= 2

IsPrefix(a, b) == Len(a) <= Len(b) /\ \A i \in 1..Len(a) : a[i] = b[i]

\* the events emitted so far, and the trimmed lines appended to path 1 while
\* its Tailer read it
Events == [i \in 1..Len(emitted) |-> emitted[i].event]
TrimmedLines == [i \in 1..Len(written[1]) |-> TrimSpace(written[1][i])]

\* the Tailer of slot 1 has read everything its file holds: its last read
\* returned end-of-data and nothing was appended since
AtEndOfData ==
  tailers[1].pc = "eof" /\ tailers[1].off = Size(tailers[1].handle)

SingleLineNoExclude ==
  cfg.targets[1].multiline = NoPattern /\ cfg.targets[1].exclude = NoPattern

\* C6: without multiline and exclude pattern, on a file that is only
\* appended to, the emitted events are the trimmed appended lines, in order
\* and one-to-one: never anything else, and all of them once the Tailer has
\* read up to end-of-data
C6_OneEntryPerLine ==
  (SingleLineNoExclude /\ ~truncated /\ nfiles = 1) =>
    /\ IsPrefix(Events, TrimmedLines)
    /\ AtEndOfData => Events = TrimmedLines

\* two lines were appended, and the Tailer has emitted both and is at
\* end-of-data
C6_Witness ==
  /\ SingleLineNoExclude /\ ~truncated /\ nfiles = 1
  /\ AtEndOfData
  /\ Len(written[1]) >= 2
  /\ Len(emitted) = Len(written[1])

\* C7: every entry ever placed on the queue has an event that is not empty
\* after trimming
C7_EventNeverBlank ==
  \A i \in 1..Len(emitted) : TrimSpace(emitted[i].event) # <<>>

\* C8: across one rotation with no write inside the detection window, the
\* lines written to the old and to the new file are emitted exactly once, in
\* order: nothing else is ever emitted, and all of them once the Tailer is
\* at end-of-data of the file now at the path
C8_RotationExactlyOnce ==
  (SingleLineNoExclude /\ ~truncated /\ ~winWrite /\ nfiles <= 2) =>
    /\ IsPrefix(Events, TrimmedLines)
    /\ (AtEndOfData /\ tailers[1].handle = fs[1]) => Events = TrimmedLines

\* a line was written to the old file and one to the new file, the Tailer has
\* detected the rotation and is at end-of-data of the new file
C8_Witness ==
  /\ SingleLineNoExclude /\ ~truncated /\ ~winWrite /\ nfiles = 2
  /\ "rotation" \in tailers[1].logged
  /\ AtEndOfData /\ tailers[1].handle = fs[1] /\ fs[1] = 2
  /\ Size(1) > 2 /\ Size(2) > 0
  /\ Len(emitted) = 2

\* the Tailer in slot t completes an end-of-data check in this step, and
\* finds the file identity it knows with a size below the last known size
TruncationSeen(t) ==
  /\ tailers[t].pc = "eof"
  /\ tailers'[t].pc # "eof"
  /\ fs[tailers[t].path] = tailers[t].fiId
  /\ Size(fs[tailers[t].path]) < tailers[t].fiSize

\* C9: on such a check the Tailer drops the buffered multiline record
\* without emitting anything, holds nothing it could emit later, and its
\* next read starts at offset 0
C9_TruncationDiscards ==
  [][\A t \in Slots :
       TruncationSeen(t) =>
         /\ tailers'[t].mbuf = <<>>
         /\ tailers'[t].pend = <<>>
         /\ tailers'[t].line = <<>>
         /\ tailers'[t].off = 0
         /\ tailers'[t].pc = "loop"
         /\ emitted' = emitted
         /\ queue' = queue]_vars

\* a Tailer in multiline mode has detected a truncation of a file to which a
\* line had been appended while it read it, and nothing was emitted
C9_Witness ==
  /\ cfg.targets[1].multiline # NoPattern
  /\ truncated
  /\ written[1] # <<>> /\ emitted = <<>>
  /\ "truncation" \in tailers[1].logged
  /\ tailers[1].pc = "loop" /\ tailers[1].off = 0 /\ tailers[1].mbuf = <<>>

\* C10: a Tailer that completes an end-of-data check on the file it holds is
\* not left with a read offset beyond the end of that file
C10_NeverBeyondEnd ==
  [][\A t \in Slots :
       (/\ tailers[t].pc = "eof"
        /\ tailers'[t].pc = "loop"
        /\ fs[tailers[t].path] = tailers[t].handle)
       => tailers'[t].off <= Size(tailers'[t].handle)]_vars

\* C11: across truncations of the one file at the path, no line is emitted a
\* second time.  In single-line mode without exclude pattern every emitted
\* entry is one line of the file, so the entries cannot outnumber the lines
\* the file ever held: the line it held when the Tailer opened it and the
\* lines appended since.
C11_NoDuplicateAcrossTruncation ==
  (SingleLineNoExclude /\ nfiles = 1) => Len(emitted) <= Len(written[1]) + 1

\* the blocks a multiline start pattern ml cuts a sequence of lines into: a
\* line matching ml begins a new block, every other line continues the
\* block at hand (the lines before the first match form a block of their
\* own); cur is the block at hand
RECURSIVE Assemble(_, _, _)
Assemble(lines, cur, ml) ==
  IF lines = <<>> THEN <<cur>>
  ELSE IF MatchString(ml, Head(lines))
       THEN <<cur>> \o Assemble(Tail(lines), Head(lines), ml)
       ELSE Assemble(Tail(lines), cur \o Head(lines), ml)

\* the blocks of the lines appended to path 1, the last of them still open
AllBlocks == Assemble(written[1], <<>>, cfg.targets[1].multiline)
OpenBlock == AllBlocks[Len(AllBlocks)]

\* the records that are complete: every line without a multiline pattern,
\* else every block that a later start line has ended
ClosedRecords ==
  IF cfg.targets[1].multiline = NoPattern THEN written[1]
  ELSE SubSeq(AllBlocks, 1, Len(AllBlocks) - 1)

NonBlank(m) == m # <<>>
NotExcluded(m) ==
  ~(cfg.targets[1].exclude # NoPattern
    /\ MatchString(cfg.targets[1].exclude, m))

\* the trimmed text of the complete records, blank ones left aside, and of
\* those the exclude pattern does not match
RecordTexts ==
  SelectSeq([i \in 1..Len(ClosedRecords) |-> TrimSpace(ClosedRecords[i])],
            NonBlank)
KeptTexts == SelectSeq(RecordTexts, NotExcluded)
NonBlankEvents == SelectSeq(Events, NonBlank)

\* C12: with an exclude pattern, the emitted records (blank ones left aside)
\* are exactly the complete records whose assembled, trimmed text does not
\* match the pattern, unchanged and in order: never anything else, and all
\* of them once the Tailer is at end-of-data.  A match in any line of a
\* multiline block suppresses the block.
C12_ExcludeAssembledRecord ==
  cfg.targets[1].exclude # NoPattern =>
    /\ IsPrefix(NonBlankEvents, KeptTexts)
    /\ AtEndOfData => NonBlankEvents = KeptTexts

\* a multiline block whose continuation line alone matches the exclude
\* pattern was completed and suppressed, and the Tailer is at end-of-data
C12_Witness ==
  /\ cfg.targets[1].exclude # NoPattern
  /\ cfg.targets[1].multiline # NoPattern
  /\ AtEndOfData
  /\ written[1] = << <<"S", NL>>, <<SP, "X", NL>>, <<"S", NL>> >>
  /\ emitted = <<>>

\* C13: with a multiline start pattern (and no exclude pattern), a start
\* line and the lines that follow it up to the next start line are emitted
\* as one record, all lines joined in order, once the next start line is
\* read; the buffer then holds the record the new start line began
C13_MultilineAggregation ==
  (cfg.targets[1].multiline # NoPattern /\ cfg.targets[1].exclude = NoPattern)
  =>
    /\ IsPrefix(NonBlankEvents, RecordTexts)
    /\ AtEndOfData =>
         /\ NonBlankEvents = RecordTexts
         /\ tailers[1].mbuf = OpenBlock

\* a start line and one continuation line were emitted as one record when a
\* second start line was read, which now is in the buffer
C13_Witness ==
  /\ cfg.targets[1].multiline # NoPattern /\ cfg.targets[1].exclude = NoPattern
  /\ AtEndOfData
  /\ written[1] = << <<"S", NL>>, <<SP, "X", NL>>, <<"S", NL>> >>
  /\ Events = << <<"S", NL, SP, "X">> >>
  /\ tailers[1].mbuf = <<"S", NL>>

\* the multiline buffer of the Tailer of slot 1 holds a start line and one
\* continuation line, a record that no later start line has ended
OpenRecord == <<"S", NL, SP, "X", NL>>
OpenRecordBuffered == Live(1) /\ tailers[1].mbuf = OpenRecord

\* the record with both its lines, as the writer puts it into the sink
FlushedRecord == Serialize(LogEntry(1, TrimSpace(OpenRecord)), cfg.format)

\* C14: when the shutdown signal finds a multiline record of a start line
\* and one continuation line that no later start line has ended in the
\* Tailer's buffer, Run eventually returns with that record, both lines in
\* it, as the last entry written to the sink
C14_ShutdownFlushesOpenRecord ==
  (rootCancel /\ OpenRecordBuffered)
    ~> (runPc = "returned" /\ sink # <<>> /\ sink[Len(sink)] = FlushedRecord)

\* Run has returned and the sink holds the record flushed at the shutdown
C14_Witness ==
  /\ runPc = "returned"
  /\ rootCancel
  /\ Len(sink) = LiveLines
  /\ sink[Len(sink)] = FlushedRecord

\* the existing paths that some glob pattern of some target matches
Matched ==
  {p \in Paths :
     /\ fs[p] # NoFile
     /\ \E i \in 1..Len(cfg.targets) :
          \E j \in 1..Len(cfg.targets[i].paths) :
            ~cfg.targets[i].paths[j].bad /\ p \in cfg.targets[i].paths[j].match}

\* what a discovery cycle has done when it returns
DiscoverPost ==
  /\ {p \in Paths : tracked'[p] # 0} = Matched
  /\ \A p \in Matched :
       IF tracked[p] = 0
       THEN /\ ~Live(tracked'[p])
            /\ tailers'[tracked'[p]].pc = "open"
            /\ tailers'[tracked'[p]].path = p
            /\ ~tailers'[tracked'[p]].cancel
            /\ \A q \in Paths : tracked[q] # tracked'[p]
       ELSE /\ tracked'[p] = tracked[p]
            /\ tailers'[tracked[p]] = tailers[tracked[p]]
  /\ \A p \in Paths \ Matched :
       (tracked[p] # 0 /\ Live(tracked[p])) => tailers'[tracked[p]].cancel
  /\ wg' = wg + Cardinality({p \in Matched : tracked[p] = 0})

\* C15: when a discovery cycle returns, the tracked paths are exactly the
\* matched paths: every matched path that was not tracked got a new Tailer,
\* every tracked path that is not matched had its cancel function called and
\* was removed, and a path that stays matched keeps its Tailer untouched
C15_DiscoverTracksMatched == [][(RunDiscover \/ RunTick) => DiscoverPost]_vars

\* after discovery cycles: path 1 was tracked, then removed from the file
\* system, and its Tailer is cancelled and no longer tracked, while path 2,
\* found in a later cycle, is tracked with its Tailer in the read loop
C15_Witness ==
  /\ runPc = "select"
  /\ tracked[1] = 0 /\ fs[1] = NoFile
  /\ \E s \in Slots : tailers[s].path = 1 /\ Live(s) /\ tailers[s].cancel
  /\ tracked[2] # 0 /\ tailers[tracked[2]].path = 2
  /\ tailers[tracked[2]].pc = "eof" /\ ~tailers[tracked[2]].cancel

\* the Tailer goroutine started for path p has not returned
TailerRunning(p) == \E s \in Slots : tailers[s].path = p /\ Live(s)

\* C16: a path is a key of the tracked map exactly while the Tailer started
\* for it is running
C16_TrackedIffRunning ==
  \A p \in Paths : tracked[p] # 0 <=> TailerRunning(p)

\* a Tailer goroutine started for path p has returned and none is running
TailerEnded(p) ==
  /\ ~TailerRunning(p)
  /\ \E s \in Slots : tailers[s].path = p /\ tailers[s].pc = "done"

\* C17: whenever Run waits for the next poll tick while a matched path has
\* no running Tailer because its Tailer has returned, the discovery cycle of
\* that tick starts a new Tailer for the path
C17_RestartAfterOwnEnd ==
  \A p \in Paths :
    (runPc = "select" /\ p \in Matched /\ TailerEnded(p))
      => ENABLED (RunTick /\ TailerRunning(p)')

\* the events of the entries that the Tailer of path p has put on the queue
EventsOf(p) ==
  LET es == SelectSeq(emitted, LAMBDA e : e.source = p)
  IN  [i \in 1..Len(es) |-> es[i].event]

\* the trimmed records of the lines appended to path p, in file order: the
\* lines, or with a multiline pattern the blocks that a later start line has
\* ended
RecordsOf(p) ==
  LET ml == cfg.targets[1].multiline
      bs == Assemble(written[p], <<>>, ml)
      rs == IF ml = NoPattern THEN written[p]
            ELSE SubSeq(bs, 1, Len(bs) - 1)
  IN  SelectSeq([i \in 1..Len(rs) |-> TrimSpace(rs[i])], NonBlank)

HasMalformedPattern ==
  \E i \in 1..Len(cfg.targets) :
    \/ cfg.targets[i].exclude \in MalformedPatterns
    \/ cfg.targets[i].multiline \in MalformedPatterns

\* C19: agent.New returns an error and no Agent exactly for the
\* configurations with a pattern that does not compile, an Agent for all
\* others; after a failed agent.New neither the writer nor a Tailer is ever
\* started
C19_NewFailsOnBadPattern ==
  /\ New(cfg).err # NoError <=> HasMalformedPattern
  /\ New(cfg).err # NoError => New(cfg).agent = NoAgent
  /\ New(cfg).err = NoError =>
       /\ New(cfg).agent # NoAgent
       /\ Len(New(cfg).agent[1].regexCache) = Len(cfg.targets)
  /\ runPc # "new" => (runPc = "failed" <=> HasMalformedPattern)
  /\ HasMalformedPattern =>
       (wpc = "idle" /\ wg = 0 /\ \A t \in Slots : tailers[t].pc = "none")

\* agent.New has failed on the malformed multiline pattern of the last
\* target, after compiling the patterns of the first
C19_Witness ==
  /\ runPc = "failed"
  /\ Len(cfg.targets) = MaxTargets
  /\ cfg.targets[1].exclude = "X" /\ cfg.targets[1].multiline = "^S"
  /\ cfg.targets[MaxTargets].exclude = "X"
  /\ cfg.targets[MaxTargets].multiline = "("

\* the poll_interval values that are durations, with their length in seconds
DurationSeconds ==
  { << <<"5", "s">>, 5 >>, << <<"1", "m">>, 60 >>, << <<"0">>, 0 >>,
    << <<"-", "1", "s">>, -1 >> }
IsDuration(str) == \E pr \in DurationSeconds : pr[1] = str

\* the configuration is one that the claim says Config.Validate rejects
Rejected(c) ==
  \/ c.pollInterval = <<>>
  \/ ~IsDuration(c.pollInterval)
  \/ c.format \notin {"", "json", "raw"}
  \/ c.targets = <<>>

\* C20: Config.Validate returns an error exactly when poll_interval is empty
\* or no duration, output_format is none of empty, json and raw, or there is
\* no target; when it succeeds, the duration returned is that of
\* poll_interval and the configuration is the same but for an empty
\* output_format, which has become json.  runForwarder goes on to agent.New
\* exactly when there was no error.
C20_ValidateRejects ==
  /\ Validate(cfg).err # NoError <=> Rejected(cfg)
  /\ Validate(cfg).err = NoError =>
       /\ <<cfg.pollInterval, Validate(cfg).dur>> \in DurationSeconds
       /\ Validate(cfg).cfg =
            [cfg EXCEPT !.format = IF cfg.format = "" THEN "json" ELSE @]
  /\ runPc # "validate" =>
       /\ runPc = "failed" <=> Rejected(cfg)
       /\ runPc # "failed" => cfg.format \in {"json", "raw"}

\* Config.Validate has accepted a configuration, runForwarder is about to
\* call agent.New
C20_Witness ==
  /\ runPc = "new"
  /\ cfg.pollInterval = <<"1", "m">>
  /\ cfg.format = "json"
  /\ Len(cfg.targets) = 1

\* the existing paths that a well-formed glob pattern of some target matches
MatchedByOthers ==
  {p \in Paths :
     /\ fs[p] # NoFile
     /\ \E i \in 1..Len(cfg.targets) :
          \E j \in 1..Len(cfg.targets[i].paths) :
            /\ cfg.targets[i].paths[j] # BadGlob
            /\ p \in cfg.targets[i].paths[j].match}

HasBadGlob ==
  \E i \in 1..Len(cfg.targets) :
    \E j \in 1..Len(cfg.targets[i].paths) : cfg.targets[i].paths[j] = BadGlob

\* C21: a discovery cycle of a configuration with a glob pattern that fails
\* to expand still discovers every path that the other patterns match (of
\* the same target and of the others): after the cycle these paths are the
\* tracked ones, a Tailer is started for those that were not tracked, and the
\* Tailer of a path that was tracked is neither cancelled nor replaced
C21_BadGlobSkipped ==
  [][((RunDiscover \/ RunTick) /\ HasBadGlob) =>
       /\ {p \in Paths : tracked'[p] # 0} = MatchedByOthers
       /\ \A p \in MatchedByOthers :
            IF tracked[p] = 0
            THEN tailers'[tracked'[p]].pc = "open"
                 /\ tailers'[tracked'[p]].path = p
            ELSE tracked'[p] = tracked[p]
                 /\ tailers'[tracked[p]] = tailers[tracked[p]]]_vars

\* with a malformed pattern as the first pattern of the first target, a
\* later discovery cycle has found path 2 while the Tailer of path 1, started
\* by an earlier cycle, reads on uncancelled
C21_Witness ==
  /\ cfg.targets[1].paths[1] = BadGlob
  /\ runPc = "select"
  /\ tracked[1] # 0 /\ tracked[2] # 0
  /\ tailers[tracked[1]].pc = "eof" /\ ~tailers[tracked[1]].cancel
  /\ tailers[tracked[2]].pc = "open"

\* the entry e is one of target k: it names the target, comes from a path of
\* the target and carries the target's field map, the same pairs
EntryOfTarget(e, k) ==
  /\ e.sourcetype = cfg.targets[k].name
  /\ \E j \in 1..Len(cfg.targets[k].paths) : e.source \in cfg.targets[k].paths[j].match
  /\ e.fields = cfg.targets[k].fields

\* C22: every entry a Tailer has emitted, through the single-line send or
\* through the flush of a multiline record, carries the field map of the
\* target its Tailer was started for, unchanged; the entries of the target
\* without fields carry an empty field map
C22_FieldsCarried ==
  \A i \in 1..Len(emitted) :
    /\ emitted[i].source = 1 => EntryOfTarget(emitted[i], 1)
    /\ emitted[i].source # 1 =>
         (EntryOfTarget(emitted[i], 2) /\ emitted[i].fields = {})

\* an entry of the first target sent in single-line mode and an entry of
\* the second target, which has no fields, sent by the flush of a multiline
\* record
C22_Witness ==
  /\ cfg.targets[1].multiline = NoPattern
  /\ cfg.targets[2].multiline # NoPattern
  /\ \E i, j \in 1..Len(emitted) :
       /\ emitted[i].source = 1 /\ emitted[i].fields # {}
       /\ emitted[j].source = 2 /\ emitted[j].fields = {}

\* the text m holds a byte of the historic line
HoldsHistoric(m) == \E i \in 1..Len(m) : m[i] = "H"

\* C23: as long as the Tailer has detected neither a rotation nor a
\* truncation, no entry it emits holds content that was in the file when the
\* Tailer opened it
C23_NoHistoricContent ==
  [][(tailers[1].logged = {} /\ emitted' # emitted)
       => ~HoldsHistoric(emitted'[Len(emitted')].event)]_vars

\* the Tailer has emitted an appended line and is at end-of-data of the file
\* that still begins with the historic line, no rotation or truncation seen
C23_Witness ==
  /\ AtEndOfData
  /\ tailers[1].logged = {}
  /\ tailers[1].handle = 1
  /\ IsPrefix(HistoricLine, content[1])
  /\ written[1] # <<>>
  /\ Len(emitted) = Len(written[1])

\* the entries WriteLogs has taken from the queue, and what it has written
\* for them: the sink and behind it the content of the bufio.Writer
Taken == SubSeq(emitted, 1, Len(emitted) - Len(queue))
Output == sink \o wbuf

\* C24: with format "raw", what WriteLogs has written is, for each entry
\* taken from the queue and in the order taken, the event text followed by
\* one line terminator, and nothing else
C24_RawOutput ==
  cfg.format = "raw" =>
    Output = [i \in 1..Len(Taken) |-> [raw |-> Taken[i].event \o <<NL>>]]

\* WriteLogs has returned in format "raw" after an event of two lines and an
\* event of one line
C24_Witness ==
  /\ cfg.format = "raw"
  /\ wpc = "done"
  /\ sink = << [raw |-> <<"S", NL, SP, "X", NL>>], [raw |-> <<"h", NL>>] >>

JsonMembers == {"time", "host", "source", "sourcetype", "event"}

\* C25: with a format other than "raw", WriteLogs has written one record for
\* each entry taken from the queue, in the order taken, with the entry's
\* time, host, source, sourcetype and event, and with a fields member, the
\* entry's field map, exactly when that map is not empty
C25_JsonOutput ==
  cfg.format # "raw" =>
    /\ Len(Output) = Len(Taken)
    /\ \A i \in 1..Len(Taken) :
         /\ \A m \in JsonMembers :
              m \in DOMAIN Output[i] /\ Output[i][m] = Taken[i][m]
         /\ DOMAIN Output[i] \subseteq JsonMembers \cup {"fields"}
         /\ "fields" \in DOMAIN Output[i] <=> Taken[i].fields # {}
         /\ Taken[i].fields # {} => Output[i].fields = Taken[i].fields

\* WriteLogs has returned, in a format that is neither "json" nor "raw",
\* after an entry with fields and an entry without
C25_Witness ==
  /\ cfg.format = "text"
  /\ wpc = "done"
  /\ Len(sink) = 2
  /\ "fields" \in DOMAIN sink[1]
  /\ "fields" \notin DOMAIN sink[2]

\* the step writes one more record than was written before
OneMoreWritten == Len(sink' \o wbuf') = Len(sink \o wbuf) + 1

\* C26: after a write for an entry has failed, WriteLogs is still in its
\* loop and, when the queue holds an entry, takes it (the queue loses its
\* head and nothing is put back) and writes its record
C26_WriterContinuesAfterFailure ==
  (wpc = "runErr" /\ queue # <<>>) =>
    ENABLED (WriterTake /\ queue' = Tail(queue) /\ OneMoreWritten)

\* C27: every entry WriteLogs has taken from the queue reaches the sink:
\* whatever has been written into the buffer is flushed by the flush timer,
\* also when no further entry arrives and the queue is never closed
C27_TimerFlushes ==
  \A n \in 1..MaxWriterOps :
    (Len(sink \o wbuf) >= n) ~> (Len(sink) >= n)

\* one entry has been sent and taken, the queue is open, WriteLogs is in its
\* loop, and the entry is in the sink: the timer has flushed it
C27_Witness ==
  /\ ~closed
  /\ wpc = "run"
  /\ Len(emitted) = 1
  /\ queue = <<>>
  /\ wbuf = <<>>
  /\ Len(sink) = 1

\* the step in which the goroutine of slot t leaves its startup with the
\* path naming no file
OpenFails(t) ==
  /\ tailers[t].pc = "open"
  /\ fs[tailers[t].path] = NoFile
  /\ tailers'[t].pc # "open"

\* C28: the step of a Tailer whose os.Open fails counts one file error of
\* kind "open" and nothing else, puts nothing on the queue, ends the
\* goroutine without entering the read loop and runs wg.Done()
C28_OpenFailure ==
  [][\A t \in Slots :
       OpenFails(t) =>
         /\ tailers'[t].errs = <<"open">>
         /\ tailers'[t].pc = "done"
         /\ tailers'[t].handle = NoFile
         /\ emitted' = emitted
         /\ queue' = queue
         /\ wg' = wg - 1]_vars

\* a Tailer has returned from a failed os.Open
C28_Witness ==
  \E t \in Slots :
    /\ tailers[t].pc = "done"
    /\ tailers[t].errs = <<"open">>

\* the record flushBuffer finds in the buffer of record r is not emitted
NothingToFlush(r) ==
  \/ r.mbuf = <<>>
  \/ TrimSpace(r.mbuf) = <<>>
  \/ (ExcludeRegex(1) # "" /\ MatchString(ExcludeRegex(1), TrimSpace(r.mbuf)))

\* what the step of a failed read leaves: one error of kind "read" counted,
\* the buffer empty, and either the goroutine ended with the handle closed
\* or the trimmed record about to be sent, the end of the goroutine after it
ReadErrPost ==
  LET r  == tailers[1]
      r2 == tailers'[1]
  IN  /\ r2.errs = Append(r.errs, "read")
      /\ r2.mbuf = <<>>
      /\ emitted' = emitted
      /\ IF NothingToFlush(r)
         THEN r2.pc = "done" /\ r2.handle = NoFile /\ wg' = wg - 1
         ELSE /\ r2.pc = "fsend"
              /\ r2.pend = TrimSpace(r.mbuf)
              /\ r2.cont = "close"
              /\ wg' = wg

\* the send of the record flushed after a failed read: the entry with the
\* record is put on the queue, the handle is closed, the goroutine ends with
\* wg.Done() and has counted the one error
FlushSendPost ==
  LET r  == tailers[1]
      r2 == tailers'[1]
  IN  /\ Len(emitted') = Len(emitted) + 1
      /\ emitted'[Len(emitted')].event = r.pend
      /\ queue' = Append(queue, emitted'[Len(emitted')])
      /\ r2.pc = "done"
      /\ r2.handle = NoFile
      /\ r2.errs = <<"read">>
      /\ wg' = wg - 1

\* C29: a read that fails with an error other than io.EOF counts one error
\* of kind "read", flushes the buffered record (trimmed, dropped when blank
\* or excluded), closes the handle and ends the goroutine with wg.Done()
C29_ReadFailure ==
  [][/\ TailReadErr(1) => ReadErrPost
     /\ (tailers[1].errs = <<"read">> /\ tailers[1].pc = "fsend"
           /\ tailers'[1].pc # "fsend") => FlushSendPost]_vars

\* the Tailer has ended after a failed read and the last entry emitted is
\* the record of two lines it had in its buffer
C29_Witness ==
  /\ tailers[1].pc = "done"
  /\ tailers[1].errs = <<"read">>
  /\ emitted # <<>>
  /\ emitted[Len(emitted)].event = <<"S", NL, SP, "X">>

\* C30: a step that changes the tracked map is a discovery cycle of Run, and
\* a step of a Tailer or of the writer leaves the map as it is
C30_TrackedOnlyByDiscovery ==
  [][/\ tracked' # tracked => (RunDiscover \/ RunTick)
     /\ ((\E t \in Slots : TailStep(t)) \/ WriterStep) => tracked' = tracked]_vars

\* the Tailer of path 1 has emitted an entry, the writer has written it to
\* the sink, and a discovery cycle has removed path 1, tracked at the start,
\* from the map
C30_Witness ==
  /\ runPc = "select"
  /\ tracked[1] = 0
  /\ emitted # <<>>
  /\ sink # <<>>

\* the step in which the Tailer, at end of data, finds another file at its
\* path than the one it has open
RotationDetected ==
  /\ tailers[1].pc = "eof"
  /\ fs[1] # NoFile
  /\ fs[1] # tailers[1].fiId
  /\ tailers'[1] # tailers[1]

\* the detection empties the buffer and, with a record to emit, goes to send
\* it, the old file still open
RotationFlushPost ==
  LET r  == tailers[1]
      r2 == tailers'[1]
  IN  /\ r2.mbuf = <<>>
      /\ r2.handle = r.handle
      /\ emitted' = emitted
      /\ IF NothingToFlush(r)
         THEN r2.pc = "rotopen"
         ELSE r2.pc = "fsend" /\ r2.pend = TrimSpace(r.mbuf)
                /\ r2.cont = "rotopen"

\* the send of the record of the old file: the entry is emitted while the
\* old file is still the open one, the open of the path comes next
RotationSendPost ==
  LET r  == tailers[1]
      r2 == tailers'[1]
  IN  /\ Len(emitted') = Len(emitted) + 1
      /\ emitted'[Len(emitted')].event = r.pend
      /\ r2.handle = r.handle
      /\ r2.pc = "rotopen"

\* the open of the path, when it finds a file: the Tailer is at the head of
\* its loop on that file at offset 0, not in the end-of-data wait
RotationOpenPost ==
  LET r2 == tailers'[1]
  IN  /\ r2.handle = fs[1]
      /\ r2.off = 0
      /\ r2.mbuf = <<>>
      /\ r2.pc = "loop"
      /\ emitted' = emitted

\* C31: a Tailer that detects a rotation with a record in its buffer emits
\* the record before it opens the new file, so before any entry read from
\* it, and after the open reads the new file from offset 0 at once
C31_RotationFlushFirst ==
  [][/\ RotationDetected => RotationFlushPost
     /\ (tailers[1].pc = "fsend" /\ tailers[1].cont = "rotopen"
           /\ tailers'[1] # tailers[1]) => RotationSendPost
     /\ (tailers[1].pc = "rotopen" /\ fs[1] # NoFile
           /\ tailers'[1] # tailers[1]) => RotationOpenPost]_vars

\* the record of two lines read from the first file is the one entry
\* emitted, and the Tailer is at offset 0 of the second file
C31_Witness ==
  /\ emitted = <<LogEntry(1, <<"S", NL, SP, "X">>)>>
  /\ tailers[1].handle = 2
  /\ tailers[1].off = 0
  /\ tailers[1].pc = "loop"

\* the lines of text c: the pieces that end with a line terminator
LinesOf(c) ==
  LET E == {0} \cup {i \in 1..Len(c) : c[i] = NL}
  IN  { SubSeq(c, a + 1, b) :
          <<a, b>> \in { x \in E \X E :
                           /\ x[1] < x[2]
                           /\ \A k \in (x[1] + 1)..(x[2] - 1) : c[k] # NL } }

\* C32: in single-line mode every emitted event is a whole line of the file,
\* trimmed, also when the line was written in two parts and the Tailer was
\* at the end of the data between the two writes
C32_WholeLineEmitted ==
  \A i \in 1..Len(emitted) :
    \E l \in LinesOf(content[1]) : emitted[i].event = TrimSpace(l)

\* the step of the Tailer at end of data with the file of the path the one
\* it knows, not smaller than it knows it
OrdinaryEof ==
  /\ tailers[1].pc = "eof"
  /\ fs[1] = tailers[1].fiId
  /\ Size(fs[1]) >= tailers[1].fiSize
  /\ tailers'[1] # tailers[1]

\* C33: at an ordinary end of data the Tailer keeps its multiline buffer,
\* its file and its offset, puts nothing on the queue, and is back at the
\* head of its loop
C33_EofKeepsBuffer ==
  [][OrdinaryEof =>
       /\ tailers'[1].mbuf = tailers[1].mbuf
       /\ tailers'[1].handle = tailers[1].handle
       /\ tailers'[1].off = tailers[1].off
       /\ tailers'[1].pc = "loop"
       /\ emitted' = emitted
       /\ queue' = queue
       /\ wg' = wg]_vars

\* in multiline mode the Tailer has read a start line appended after the
\* open, has met the end of the data and refreshed the size, and holds the
\* line in its buffer with nothing emitted
C33_Witness ==
  /\ tailers[1].pc = "loop"
  /\ tailers[1].mbuf = <<"S", NL>>
  /\ tailers[1].off = Size(tailers[1].handle)
  /\ tailers[1].fiSize = tailers[1].off
  /\ tailers[1].off > 2
  /\ tailers[1].logged = {}
  /\ emitted = <<>>

\* a step of the Tailer at its end-of-data check or at the open of a rotated
\* file, while its path names no file: os.Stat or os.Open fails
PathMissingStep ==
  /\ tailers[1].pc \in {"eof", "rotopen"}
  /\ fs[1] = NoFile
  /\ tailers'[1] # tailers[1]

\* a step of the Tailer at its end-of-data check while its path names a file
\* that is not the one it has open
PathBackStep ==
  /\ tailers[1].pc = "eof"
  /\ fs[1] # NoFile
  /\ fs[1] # tailers[1].handle
  /\ tailers'[1] # tailers[1]

\* a step of the Tailer at the open of a rotated file while its path names a
\* file
ReopenStep ==
  /\ tailers[1].pc = "rotopen"
  /\ fs[1] # NoFile
  /\ tailers'[1] # tailers[1]

\* C34: while the path is missing, a failed stat or open leaves the Tailer
\* running at the head of its loop with the handle and offset it had; once
\* the path names a file again the end-of-data check goes to open it, and
\* the open switches to that file at offset 0
C34_KeepsOldHandle ==
  [][/\ PathMissingStep =>
          /\ tailers'[1].handle = tailers[1].handle
          /\ tailers'[1].off = tailers[1].off
          /\ tailers'[1].pc = "loop"
          /\ wg' = wg
     /\ PathBackStep =>
          /\ tailers'[1].pc \in {"fsend", "rotopen"}
          /\ tailers'[1].pc = "fsend" => tailers'[1].cont = "rotopen"
          /\ wg' = wg
     /\ ReopenStep =>
          /\ tailers'[1].handle = fs[1]
          /\ tailers'[1].off = 0
          /\ tailers'[1].pc = "loop"
          /\ wg' = wg]_vars

\* the Tailer has detected a rotation, the path was gone when it came to
\* open it, and it is back in its loop on the file it had
C34_Witness ==
  /\ "rotation" \in tailers[1].logged
  /\ fs[1] = NoFile
  /\ tailers[1].pc = "loop"
  /\ tailers[1].handle = 1

\* C35: a Tailer that has returned holds no open file
C35_HandlesClosed ==
  \A t \in Slots : tailers[t].pc = "done" => tailers[t].handle = NoFile

\* C36: the WaitGroup counter is the number of Tailers that have been
\* started and have not returned, whether or not the tracked map still
\* holds them and whether or not the root context was cancelled when they
\* were started
C36_WgCountsLiveTailers ==
  wg = Cardinality({t \in Slots : Live(t)})

\* after the root context was cancelled a discovery cycle has started a
\* Tailer, and another Tailer, dropped from the tracked map, has not yet
\* returned: both are counted
C36_Witness ==
  /\ rootCancel
  /\ wg = 2
  /\ \E t \in Slots : tailers[t].pc = "open"
  /\ \E t \in Slots : Live(t) /\ \A p \in Paths : tracked[p] # t

\* the targets with a glob pattern that matches path p
Covering(p) ==
  {i \in 1..Len(cfg.targets) :
     \E j \in 1..Len(cfg.targets[i].paths) :
       ~cfg.targets[i].paths[j].bad /\ p \in cfg.targets[i].paths[j].match}

FirstCovering(p) == CHOOSE i \in Covering(p) : \A k \in Covering(p) : i <= k

\* the slots in which the step starts a goroutine for path p
StartedFor(p) ==
  {t \in Slots : /\ ~Live(t)
                 /\ tailers'[t].pc = "open"
                 /\ tailers'[t].path = p}

\* C37: a discovery cycle that finds a file at a path matched by patterns
\* of two targets starts one Tailer for it when it is not tracked, bound to
\* the first of these targets in the configuration, and when it is tracked
\* starts none and leaves the tracked Tailer and its target as they are
C37_FirstTargetBinds ==
  [][(RunDiscover \/ RunTick) =>
       \A p \in Paths :
         (fs[p] # NoFile /\ Cardinality(Covering(p)) >= 2) =>
           IF tracked[p] = 0
           THEN /\ Cardinality(StartedFor(p)) = 1
                /\ tracked'[p] \in StartedFor(p)
                /\ tailers'[tracked'[p]].tgt = FirstCovering(p)
           ELSE /\ StartedFor(p) = {}
                /\ tracked'[p] = tracked[p]
                /\ tailers'[tracked[p]].tgt = tailers[tracked[p]].tgt
                /\ tailers'[tracked[p]].path = p]_vars

\* Run waits for the next tick; path 1, matched by the patterns of both
\* targets, is tracked, and its Tailer, bound to the first target, is
\* reading
C37_Witness ==
  /\ runPc = "select"
  /\ Covering(1) = {1, 2}
  /\ tracked[1] # 0
  /\ tailers[tracked[1]].tgt = 1
  /\ tailers[tracked[1]].pc = "loop"

\* the lines appended to path 1 before the first line that matches the
\* start pattern, joined
LeadingLines == AllBlocks[1]

\* the first k lines appended to path 1, joined
FirstLines(k) == Assemble(SubSeq(written[1], 1, k), <<>>, NoPattern)[1]

\* C38: in multiline mode (no exclude pattern) the lines read before any
\* start line are kept: at end of data with no start line yet they are all
\* in the buffer and nothing is emitted; once a start line has been read
\* they are, trimmed, the first record emitted (unless blank); and a flush
\* forced by a failed read before any start line sends the lines read so
\* far as one record
C38_LeadingLinesKept ==
  (cfg.targets[1].multiline # NoPattern /\ cfg.targets[1].exclude = NoPattern)
  =>
    /\ (AtEndOfData /\ Len(AllBlocks) = 1) =>
         (tailers[1].mbuf = LeadingLines /\ emitted = <<>>)
    /\ (AtEndOfData /\ Len(AllBlocks) > 1 /\ TrimSpace(LeadingLines) # <<>>) =>
         (emitted # <<>> /\ emitted[1].event = TrimSpace(LeadingLines))
    /\ (tailers[1].pc = "fsend" /\ tailers[1].cont = "close"
          /\ Len(AllBlocks) = 1) =>
         \E k \in 1..Len(written[1]) : tailers[1].pend = TrimSpace(FirstLines(k))

\* two continuation lines were appended before the first start line; the
\* start line has been read and the two lines are the one record emitted
C38_Witness ==
  /\ cfg.targets[1].multiline # NoPattern /\ cfg.targets[1].exclude = NoPattern
  /\ AtEndOfData
  /\ written[1] = << <<SP, "X", NL>>, <<SP, "X", NL>>, <<"S", NL>> >>
  /\ Events = << <<"X", NL, SP, "X">> >>
  /\ tailers[1].mbuf = <<"S", NL>>

\* C39: when Run has been called, that is when Config.Validate and agent.New
\* have accepted the configuration, the poll interval is a positive duration
\* and Run has not panicked on its way to the discovery loop
C39_PollIntervalPositive ==
  runPc \in {"start", "discover", "panic"} =>
    /\ ParseDuration(cfg.pollInterval).d > 0
    /\ ~panicked

====
